---- MODULE Spec2Model ----
(***************************************************************************)
(* Model of the validator worker of adex-validator-stack-rust:             *)
(*   - the Leader tick and _on_new_accounting   (validator_worker/leader.rs)*)
(*   - the per-channel driver                   (validator_worker/main.rs)  *)
(*   - propagation and the paginated fetches    (sentry_interface.rs)       *)
(*   - the Ethereum adapter and SentryApi::init (adapter/ethereum.rs)       *)
(* Each part has its own specification over the shared variables; the      *)
(* variables of the other parts stay at their idle values.                 *)
(***************************************************************************)
EXTENDS Integers, Sequences, FiniteSets, TLC

(***************************************************************************)
(* Bounds of the model.                                                    *)
(***************************************************************************)
MaxAmount == 1
Deposit == 1
MaxChannels == 2
MaxPages == 3

Earners == {"publisher1", "publisher2"}
Spenders == {"creator"}
Amounts == 0 .. MaxAmount

\* the validators of a channel; "leader" is this node (adapter.whoami())
ValidatorIds == {"leader", "follower"}
Whoami == "leader"

VARIABLES
    \* ---- Leader part: the Sentry view and the outcome of the last operation
    accounting,     \* balances of our latest Accounting on our Sentry (Checked)
    lastNewState,   \* our latest NewState on the Sentry, or NoMsg
    unlocked,       \* the adapter's wallet is Some(..)
    lastOp,         \* "none" | "tick" | "on_new_accounting"
    opResult,       \* "none" | "ok" | "err" : Ok(..) / Err(..) of the last operation
    opNewState,     \* TickStatus.new_state: NoMsg (None) or the propagation results
    propagated,     \* the message batches handed to propagate, in call order
    tickDecisions,  \* of the first leader ticks: the log each saw and what it decided
    \* ---- Driver part (iterate_channels / validator_tick)
    iterPc,         \* "idle" | "joining" | "done"
    channels,       \* the channels all_channels returned (sequence of records)
    tickState,      \* per channel: position / outcome of its validator_tick future
    iterError,      \* whether try_join_all resolved to Err (an error was logged)
    tickLog,        \* per channel: the tick started for it, then its Sentry requests
    \* ---- propagate (join_all over propagate_to)
    propPc,         \* "idle" | "sent" | "done"
    propTargets,    \* the keys of propagate_to
    propOrder,      \* iteration order of the propagate_to HashMap
    propServer,     \* per target: how its Sentry answers the POST
    propSent,       \* targets a POST was sent to
    propReady,      \* per target: the PropagationResult of its future, or NoMsg
    propResults,    \* the Vec<PropagationResult> join_all returned
    \* ---- paginated fetch (get_all_spenders / all_channels / all_campaigns)
    fetchKind,      \* "spenders" | "channels" | "campaigns"
    fetchPc,        \* "idle" | "page0" | "rest" | "done"
    srvPages,       \* the Sentry's listing, split in pages (sequence of pages)
    pageState,      \* per page number: "none" | "requested" | "ok" | "err"
    reqLog,         \* the requests and responses in the order they happened
    fetchResult,    \* NoMsg | [ok |-> TRUE, value |-> ..] | [ok |-> FALSE]
    \* ---- Ethereum adapter (unlock / sign / verify / get_auth / session_from_token)
    keystore,       \* what keystore_json and keystore_pwd hold (fixed by init)
    wallet,         \* Option<SafeAccount>: "None" | "Some"
    unlockSucceeded,\* history: some call of unlock has returned Ok(())
    adOp,           \* the call in progress / just made, "none" when there is none
    adArgs,         \* its arguments
    adResult,       \* the Result it returned
    relayerCalls,   \* the has_privileges lookups it made, in order
    \* ---- Follower part: the Sentry view of a Follower and its last tick
    leaderNewState, \* the Leader's latest NewState on the Sentry, or NoMsg
    lastApproved,   \* our latest ApproveState with the NewState it refers to, or NoMsg
    fOp,            \* "none" or "tick": the call whose outcome is recorded
    fArgs,          \* the Sentry view that call read
    fResult,        \* "none", "ok" or "err"
    fEmitted,       \* the messages that call propagated, in order
    \* ---- Process part: run, infinite and iterate_channels over time
    runMode,        \* is_single_tick: "single" | "daemon"
    runPc,          \* "start" | "looping" | "exited"
    exitStatus,     \* the Result run returned: "none" | "ok" | "err"
    unlockCalls,    \* how many times unlock has been called
    argsWallet,     \* the wallet of args.adapter, the adapter the ticks clone
    now,            \* the time, in seconds
    iterCount,      \* how many iterations have been started
    iter,           \* the iteration in flight or just finished, or NoMsg
    prevIter,       \* the iteration before it, or NoMsg
    \* ---- CampaignLoad middleware (sentry)
    pool,           \* the campaigns table: campaign id -> stored Campaign
    mwRequest,      \* the Request handed to CampaignLoad::call, or NoMsg
    mwDbOk,         \* whether the query of fetch_campaign succeeds in this call
    mwResult,       \* NoMsg | Ok(request) | Err(ResponseError)
    \* ---- targeting rules (Rule::eval)
    evalInput,      \* the Input the rule is evaluated on
    evalRule,       \* the Rule
    evalResult      \* NoMsg before the call, then what eval returned and visited

leaderVars == <<accounting, lastNewState, unlocked, lastOp, opResult, opNewState, propagated,
                tickDecisions>>
driverVars == <<iterPc, channels, tickState, iterError, tickLog>>
propVars == <<propPc, propTargets, propOrder, propServer, propSent, propReady, propResults>>
fetchVars == <<fetchKind, fetchPc, srvPages, pageState, reqLog, fetchResult>>
adapterVars == <<keystore, wallet, unlockSucceeded, adOp, adArgs, adResult, relayerCalls>>
followerVars == <<leaderNewState, lastApproved, fOp, fArgs, fResult, fEmitted>>
runVars == <<runMode, runPc, exitStatus, unlockCalls, argsWallet, now, iterCount, iter, prevIter>>
campaignVars == <<pool, mwRequest, mwDbOk, mwResult>>
evalVars == <<evalInput, evalRule, evalResult>>
vars == <<leaderVars, driverVars, propVars, fetchVars, adapterVars, followerVars, runVars, campaignVars, evalVars>>

NoMsg == [type |-> "None"]

(***************************************************************************)
(* Helpers over finite maps and sequences.                                 *)
(***************************************************************************)
RECURSIVE SumMap(_)
SumMap(m) ==
    IF DOMAIN m = {} THEN 0
    ELSE LET k == CHOOSE x \in DOMAIN m : TRUE
         IN m[k] + SumMap([x \in DOMAIN m \ {k} |-> m[x]])

PartialMaps(K, V) == UNION {[D -> V] : D \in SUBSET K}

EmptyMap == [x \in {} |-> 0]

\* the idle values of the parts a specification does not exercise
LeaderIdle ==
    /\ accounting = [earners |-> EmptyMap, spenders |-> EmptyMap]
    /\ lastNewState = NoMsg
    /\ unlocked = TRUE
    /\ lastOp = "none"
    /\ opResult = "none"
    /\ opNewState = NoMsg
    /\ propagated = <<>>
    /\ tickDecisions = <<>>

DriverIdle ==
    /\ iterPc = "idle"
    /\ channels = <<>>
    /\ tickState = <<>>
    /\ iterError = FALSE
    /\ tickLog = <<>>

PropIdle ==
    /\ propPc = "idle"
    /\ propTargets = {}
    /\ propOrder = <<>>
    /\ propServer = EmptyMap
    /\ propSent = {}
    /\ propReady = EmptyMap
    /\ propResults = <<>>

FetchIdle ==
    /\ fetchKind = "spenders"
    /\ fetchPc = "idle"
    /\ srvPages = <<>>
    /\ pageState = EmptyMap
    /\ reqLog = <<>>
    /\ fetchResult = NoMsg

AdapterIdle ==
    /\ keystore = "good"
    /\ wallet = "None"
    /\ unlockSucceeded = FALSE
    /\ adOp = "none"
    /\ adArgs = NoMsg
    /\ adResult = NoMsg
    /\ relayerCalls = <<>>

FollowerIdle ==
    /\ leaderNewState = NoMsg
    /\ lastApproved = NoMsg
    /\ fOp = "none"
    /\ fArgs = NoMsg
    /\ fResult = "none"
    /\ fEmitted = <<>>

RunIdle ==
    /\ runMode = "single"
    /\ runPc = "start"
    /\ exitStatus = "none"
    /\ unlockCalls = 0
    /\ argsWallet = "None"
    /\ now = 0
    /\ iterCount = 0
    /\ iter = NoMsg
    /\ prevIter = NoMsg

CampaignIdle ==
    /\ pool = <<>>
    /\ mwRequest = NoMsg
    /\ mwDbOk = TRUE
    /\ mwResult = NoMsg

EvalIdle ==
    /\ evalInput = NoMsg
    /\ evalRule = NoMsg
    /\ evalResult = NoMsg

(***************************************************************************)
(* Balances, state root, signing.                                          *)
(***************************************************************************)
\* Balances<S>: an earners map and a spenders map
AllBalances ==
    {[earners |-> e, spenders |-> s] :
        e \in PartialMaps(Earners, Amounts), s \in PartialMaps(Spenders, Amounts)}

\* BalancesMap::default()
DefaultBalances == [earners |-> EmptyMap, spenders |-> EmptyMap]

\* Unchecked -> Checked: sum(earners) == sum(spenders) <= deposit
Check(b) ==
    /\ SumMap(b.earners) = SumMap(b.spenders)
    /\ SumMap(b.earners) <= Deposit

CheckedBalances == {b \in AllBalances : Check(b)}

\* the Merkle root as an ideal (collision-free) digest of the canonical leaves;
\* the empty tree's root is the all-zero digest
ZeroRoot == <<"root">>

get_state_root_hash(b) ==
    IF b = DefaultBalances THEN ZeroRoot
    ELSE <<"root", b.earners, b.spenders>>

\* the Result of a fallible call
Ok(v) == [ok |-> TRUE, value |-> v]
Err(e) == [ok |-> FALSE, error |-> e]

\* EthereumAdapter::sign on a state root get_state_root_hash produced (always
\* valid hex); adapter_sign below is the same function on any text
sign(isUnlocked, state_root) ==
    IF isUnlocked
    THEN Ok([signer |-> Whoami, over |-> state_root])
    ELSE Err("Configuration")

NewState(state_root, signature, balances) ==
    [type |-> "NewState", state_root |-> state_root,
     signature |-> signature, balances |-> balances]

Heartbeat(signature, state_root) ==
    [type |-> "Heartbeat", signature |-> signature, state_root |-> state_root]

(***************************************************************************)
(* propagate_to: one POST to one validator's Sentry.                       *)
(***************************************************************************)
ServerAnswers == {"success", "request_error", "timeout", "bad_json"}

\* the answers distinguished inside a tick (every failure is Error::Request)
TickAnswers == {"success", "request_error"}

propagate_to_wrong_tag(validator_id, answer) ==
    IF answer = "success"
    THEN [ok |-> TRUE, id |-> Whoami]
    ELSE [ok |-> FALSE, id |-> Whoami, error |-> "Request"]

propagate_to(validator_id, answer) ==
    IF answer = "success"
    THEN [ok |-> TRUE, id |-> validator_id]
    ELSE [ok |-> FALSE, id |-> validator_id, error |-> "Request"]

Orders(S) ==
    {o \in [1 .. Cardinality(S) -> S] : \A i, j \in DOMAIN o : i # j => o[i] # o[j]}

\* the Vec join_all returns: the result of every target, in iteration order
PropagationResults(order, answers) ==
    [i \in DOMAIN order |-> propagate_to(order[i], answers[order[i]])]

(***************************************************************************)
(* Leader part: heartbeat, leader::tick, _on_new_accounting.               *)
(***************************************************************************)
\* SentryApi::propagate as one step of a tick: the batch is posted to every
\* validator of propagate_to and every target yields its own result
propagate(order, answers) == PropagationResults(order, answers)

\* heartbeat(iface): sign over {timestamp, empty merkle root}, propagate it
heartbeat(isUnlocked, order, answers) ==
    LET state_root == get_state_root_hash(DefaultBalances)
        signature == sign(isUnlocked, state_root)
    IN  IF signature.ok
        THEN [ok |-> TRUE,
              batches |-> << <<Heartbeat(signature.value, state_root)>> >>,
              results |-> propagate(order, answers)]
        ELSE [ok |-> FALSE, batches |-> <<>>, results |-> <<>>]

\* the balances of our latest NewState; an absent NewState counts as empty
PrevBalances == IF lastNewState = NoMsg THEN DefaultBalances ELSE lastNewState.balances

TypeOK_Leader ==
    /\ accounting \in CheckedBalances
    /\ unlocked \in BOOLEAN
    /\ lastOp \in {"none", "tick", "on_new_accounting"}
    /\ opResult \in {"none", "ok", "err"}

InitLeader ==
    /\ accounting \in CheckedBalances
    /\ lastNewState \in
         {NoMsg} \cup
         {NewState(get_state_root_hash(b), sign(TRUE, get_state_root_hash(b)).value, b) :
            b \in CheckedBalances}
    /\ unlocked \in BOOLEAN
    /\ lastOp = "none"
    /\ opResult = "none"
    /\ opNewState = NoMsg
    /\ propagated = <<>>
    /\ tickDecisions = <<>>
    /\ DriverIdle /\ PropIdle /\ FetchIdle /\ AdapterIdle /\ FollowerIdle /\ RunIdle /\ CampaignIdle /\ EvalIdle

\* an _on_new_accounting that turns a failed target into its own failure
on_new_accounting_result_all_or_nothing(isUnlocked, new_accounting, order, answers) ==
    LET state_root == get_state_root_hash(DefaultBalances)
        signature == sign(isUnlocked, state_root)
        results == propagate(order, answers)
    IN  IF signature.ok /\ \A i \in DOMAIN results : results[i].ok
        THEN [ok |-> TRUE,
              batches |-> << <<NewState(state_root, signature.value, new_accounting)>> >>,
              results |-> results]
        ELSE [ok |-> FALSE, batches |-> <<>>, results |-> <<>>]

\* _on_new_accounting(iface, new_accounting), as a function of its inputs
on_new_accounting_result(isUnlocked, new_accounting, order, answers) ==
    LET state_root == get_state_root_hash(DefaultBalances)
        signature == sign(isUnlocked, state_root)
    IN  IF signature.ok
        THEN [ok |-> TRUE,
              batches |-> << <<NewState(state_root, signature.value, new_accounting)>> >>,
              results |-> propagate(order, answers)]
        ELSE [ok |-> FALSE, batches |-> <<>>, results |-> <<>>]

\* _on_new_accounting called with any AccountingResponse<UncheckedState>
on_new_accounting ==
    \E new_accounting \in AllBalances, order \in Orders(ValidatorIds),
       answers \in [ValidatorIds -> TickAnswers] :
        LET r == on_new_accounting_result(unlocked, new_accounting, order, answers)
        IN  /\ lastOp = "none"
            /\ lastOp' = "on_new_accounting"
            /\ opResult' = IF r.ok THEN "ok" ELSE "err"
            /\ opNewState' = IF r.ok THEN [type |-> "Some", results |-> r.results] ELSE NoMsg
            /\ propagated' = r.batches
            /\ UNCHANGED <<accounting, lastNewState, unlocked, tickDecisions>>
            /\ UNCHANGED <<driverVars, propVars, fetchVars, adapterVars, followerVars, runVars, campaignVars, evalVars>>

\* how many leader ticks are kept for comparison
MaxTicks == 2

\* the record of leader ticks after one more of them: what the tick read on
\* Sentry, whether it made a NewState, and the batches it handed to propagate
Decided(made_new_state, batches) ==
    IF Len(tickDecisions) < MaxTicks
    THEN Append(tickDecisions,
                [log |-> [accounting |-> accounting, lastNewState |-> lastNewState],
                 new_state |-> made_new_state,
                 batches |-> batches])
    ELSE tickDecisions

\* a tick that builds and propagates a NewState on every call
leader_tick_always_new_state ==
    \E order \in Orders(ValidatorIds), answers \in [ValidatorIds -> TickAnswers] :
        LET n == on_new_accounting_result(unlocked, accounting, order, answers)
            hb == heartbeat(unlocked, order, answers)
        IN  /\ lastOp = "none"
            /\ lastOp' = "tick"
            /\ opResult' = IF hb.ok /\ n.ok THEN "ok" ELSE "err"
            /\ opNewState' = IF n.ok THEN [type |-> "Some", results |-> n.results] ELSE NoMsg
            /\ propagated' = n.batches \o hb.batches
            /\ tickDecisions' = Decided(n.ok, n.batches \o hb.batches)
            /\ UNCHANGED <<accounting, lastNewState, unlocked>>
            /\ UNCHANGED <<driverVars, propVars, fetchVars, adapterVars, followerVars, runVars, campaignVars, evalVars>>

\* a tick that goes on to Ok(TickStatus) whatever its heartbeat returned
leader_tick_heartbeat_unchecked ==
    \E order \in Orders(ValidatorIds), answers \in [ValidatorIds -> TickAnswers] :
        LET new_state == NoMsg
            hb == heartbeat(unlocked, order, answers)
        IN  /\ lastOp = "none"
            /\ lastOp' = "tick"
            /\ opResult' = "ok"
            /\ opNewState' = new_state
            /\ propagated' = hb.batches
            /\ tickDecisions' = Decided(FALSE, hb.batches)
            /\ UNCHANGED <<accounting, lastNewState, unlocked>>
            /\ UNCHANGED <<driverVars, propVars, fetchVars, adapterVars, followerVars, runVars, campaignVars, evalVars>>

\* a tick that keeps between calls whether it has sent its heartbeat, and
\* sends it once
leader_tick_remembers ==
    \E order \in Orders(ValidatorIds), answers \in [ValidatorIds -> TickAnswers] :
        LET new_state == NoMsg
            hb == heartbeat(unlocked, order, answers)
            sent == IF tickDecisions = <<>> THEN hb.batches ELSE <<>>
        IN  /\ lastOp = "none"
            /\ lastOp' = "tick"
            /\ opResult' = IF hb.ok THEN "ok" ELSE "err"
            /\ opNewState' = new_state
            /\ propagated' = sent
            /\ tickDecisions' = Decided(FALSE, sent)
            /\ UNCHANGED <<accounting, lastNewState, unlocked>>
            /\ UNCHANGED <<driverVars, propVars, fetchVars, adapterVars, followerVars, runVars, campaignVars, evalVars>>

\* leader::tick: new_state is None; the heartbeat is awaited with `?`
leader_tick ==
    \E order \in Orders(ValidatorIds), answers \in [ValidatorIds -> TickAnswers] :
        LET new_state == NoMsg
            hb == heartbeat(unlocked, order, answers)
        IN  /\ lastOp = "none"
            /\ lastOp' = "tick"
            /\ opResult' = IF hb.ok THEN "ok" ELSE "err"
            /\ opNewState' = new_state
            /\ propagated' = hb.batches
            /\ tickDecisions' = Decided(FALSE, hb.batches)
            /\ UNCHANGED <<accounting, lastNewState, unlocked>>
            /\ UNCHANGED <<driverVars, propVars, fetchVars, adapterVars, followerVars, runVars, campaignVars, evalVars>>

\* validator_tick drops the TickStatus it gets back: nothing of a tick is kept
drop_status ==
    /\ lastOp # "none"
    /\ lastOp' = "none"
    /\ opResult' = "none"
    /\ opNewState' = NoMsg
    /\ propagated' = <<>>
    /\ UNCHANGED <<accounting, lastNewState, unlocked, tickDecisions>>
    /\ UNCHANGED <<driverVars, propVars, fetchVars, adapterVars, followerVars, runVars, campaignVars, evalVars>>

NextLeader == leader_tick \/ on_new_accounting \/ drop_status

SpecLeader == InitLeader /\ [][NextLeader]_vars

\* every message handed to propagate by the last operation, in order
RECURSIVE Flatten(_)
Flatten(ss) == IF ss = <<>> THEN <<>> ELSE Head(ss) \o Flatten(Tail(ss))

PropagatedMessages == {Flatten(propagated)[k] : k \in DOMAIN Flatten(propagated)}

NumPropagated(t) ==
    Cardinality({k \in DOMAIN Flatten(propagated) : Flatten(propagated)[k].type = t})

\* C1: a Leader tick that finds the Accounting balances different from the
\* balances of the latest NewState (absent = empty) builds a NewState carrying
\* exactly the Accounting balances, signed over its state root, and propagates
\* it together with a Heartbeat.
C1_TickBuildsNewState ==
    (lastOp = "tick" /\ opResult = "ok" /\ accounting # PrevBalances)
        => /\ NewState(get_state_root_hash(accounting),
                       sign(TRUE, get_state_root_hash(accounting)).value,
                       accounting) \in PropagatedMessages
           /\ NumPropagated("Heartbeat") = 1

\* C2: every NewState the Leader propagates has a state_root equal to the
\* Merkle root of the balances it carries, and a signature of the adapter over
\* that state_root.
C2_NewStateRootOfItsBalances ==
    \A m \in PropagatedMessages :
        m.type = "NewState"
            => /\ m.state_root = get_state_root_hash(m.balances)
               /\ m.signature = sign(TRUE, m.state_root).value

\* C3: a Leader tick that finds the Accounting balances equal to the balances
\* of the latest NewState (empty accounting and no NewState included) emits no
\* NewState; when it returns Ok it has emitted exactly one Heartbeat and
\* nothing else, and when its heartbeat fails it has emitted nothing.
C3_QuiescentTickOnlyHeartbeat ==
    (lastOp = "tick" /\ accounting = PrevBalances)
        => /\ NumPropagated("NewState") = 0
           /\ opNewState = NoMsg
           /\ opResult = "ok" =>
                (NumPropagated("Heartbeat") = 1 /\ Len(Flatten(propagated)) = 1)
           /\ opResult = "err" => propagated = <<>>

C3_Witness ==
    /\ lastOp = "tick"
    /\ opResult = "ok"
    /\ lastNewState # NoMsg
    /\ accounting # DefaultBalances
    /\ accounting = PrevBalances
    /\ NumPropagated("Heartbeat") = 1

\* C12: every Leader tick that completes successfully has emitted exactly one
\* Heartbeat, whether or not the Accounting differed from the latest NewState
\* (that is, whether or not a NewState was due in that tick).
C12_OkTickOneHeartbeat ==
    (lastOp = "tick" /\ opResult = "ok")
        => /\ NumPropagated("Heartbeat") = 1
           /\ \A m \in PropagatedMessages :
                m.type = "Heartbeat" => m.signature = sign(TRUE, m.state_root).value

C12_Witness ==
    /\ lastOp = "tick"
    /\ opResult = "ok"
    /\ accounting # PrevBalances
    /\ NumPropagated("Heartbeat") = 1

\* C22: a failure of the propagation to any of the targets never makes the
\* operation fail: whenever signing succeeds, _on_new_accounting returns Ok
\* and the Vec it returns holds one entry per target, Ok(id) or
\* Err((id, Request)), whatever subset of the targets failed; the tick, which
\* awaits only the heartbeat, returns Ok as well.
C22_TargetFailuresNotFatal ==
    (lastOp # "none" /\ unlocked)
        => /\ opResult = "ok"
           /\ lastOp = "on_new_accounting"
                => /\ opNewState.type = "Some"
                   /\ Len(opNewState.results) = Cardinality(ValidatorIds)
                   /\ \A id \in ValidatorIds :
                        \E i \in DOMAIN opNewState.results :
                            opNewState.results[i] \in
                                {[ok |-> TRUE, id |-> id],
                                 [ok |-> FALSE, id |-> id, error |-> "Request"]}
                   /\ NumPropagated("NewState") = 1

C22_Witness ==
    /\ lastOp = "on_new_accounting"
    /\ opResult = "ok"
    /\ \A i \in DOMAIN opNewState.results : ~opNewState.results[i].ok
    /\ Len(opNewState.results) = 2

\* C4: the balances of every NewState this node signs and propagates are
\* Checked: sum(earners) = sum(spenders) <= deposit.
C4_SignedBalancesChecked ==
    \A m \in PropagatedMessages : m.type = "NewState" => Check(m.balances)

(***************************************************************************)
(* Driver part: iterate_channels runs one validator_tick future per        *)
(* channel under try_join_all, inside the single task of the driver.       *)
(***************************************************************************)
Roles == {"Leader", "Follower", "None"}

\* how many requests a tick sends to Sentry at most
MaxRequests == 2

\* how a channel's tick ends when it is left to run: Ok, Err, the
\* validator_tick_timeout expiring, or a panic
Fates == {"ok", "err", "timeout", "panic"}

\* a listed channel: our role in it (channel.spec.validators.find(whoami)),
\* whether SentryApi::init succeeds for it, and what its tick will do
Channels ==
    {[role |-> r, initOk |-> TRUE, fate |-> f] : r \in {"Leader", "Follower"}, f \in Fates}
    \cup {[role |-> "None", initOk |-> TRUE, fate |-> "ok"]}
    \cup {[role |-> r, initOk |-> FALSE, fate |-> "ok"] : r \in Roles}

ChannelLists == UNION {[1 .. n -> Channels] : n \in 0 .. MaxChannels}

\* validator_tick up to its first await: Err from init or from the None arm,
\* otherwise the Leader or Follower tick is started under the timeout
first_poll(ch) ==
    IF ~ch.initOk THEN "err_init"
    ELSE IF ch.role = "None" THEN "err_none"
    ELSE "ticking"

\* a validator_tick that runs the Leader's tick whenever the node validates
\* the channel
tick_kind_always_leader(ch) ==
    CASE ch.role = "None" -> "none"
      [] OTHER -> "leader::tick"

\* the tick the match of validator_tick starts for the channel
tick_kind(ch) ==
    CASE ch.role = "Leader" -> "leader::tick"
      [] ch.role = "Follower" -> "follower::tick"
      [] OTHER -> "none"

IsErr(st) == st \in {"err_init", "err_none", "err_tick", "err_timeout"}

\* the outcome of a channel's validator_tick when nothing else interferes
OwnOutcome(ch) ==
    IF first_poll(ch) # "ticking" THEN first_poll(ch)
    ELSE CASE ch.fate = "ok" -> "ok"
           [] ch.fate = "err" -> "err_tick"
           [] ch.fate = "timeout" -> "err_timeout"
           [] ch.fate = "panic" -> "panic"

\* try_join_all / unwinding: every future that has not resolved is dropped
DropPending(ts) ==
    [j \in DOMAIN ts |->
        IF ts[j] = "ticking" THEN "dropped"
        ELSE IF ts[j] = "created" THEN "never_polled"
        ELSE ts[j]]

\* the first poll of try_join_all: the futures are polled in list order and
\* the poll stops at the first one that is Ready(Err)
RECURSIVE PollInOrder(_, _, _)
PollInOrder(chs, ts, i) ==
    IF i > Len(chs) THEN ts
    ELSE LET st == first_poll(chs[i])
         IN  IF IsErr(st)
             THEN [ts EXCEPT ![i] = st]
             ELSE PollInOrder(chs, [ts EXCEPT ![i] = st], i + 1)

InitDriver ==
    /\ DriverIdle
    /\ LeaderIdle /\ PropIdle /\ FetchIdle /\ AdapterIdle /\ FollowerIdle /\ RunIdle /\ CampaignIdle /\ EvalIdle

\* all_channels failed: "Failed to get channels" is logged, Ok(()) returned
all_channels_failed ==
    /\ iterPc = "idle"
    /\ iterPc' = "done"
    /\ UNCHANGED <<channels, tickState, iterError, tickLog>>
    /\ UNCHANGED <<leaderVars, propVars, fetchVars, adapterVars, followerVars, runVars, campaignVars, evalVars>>

\* all_channels returned the list: the futures are created and try_join_all
\* is polled for the first time
iterate_channels ==
    /\ iterPc = "idle"
    /\ \E chs \in ChannelLists :
        LET polled == PollInOrder(chs, [i \in DOMAIN chs |-> "created"], 1)
            failed == \E i \in DOMAIN polled : IsErr(polled[i])
            allOk == \A i \in DOMAIN polled : polled[i] = "ok"
        IN  /\ channels' = chs
            /\ tickState' = IF failed THEN DropPending(polled) ELSE polled
            /\ iterError' = failed
            /\ tickLog' = [i \in DOMAIN chs |->
                            IF polled[i] = "ticking" THEN <<tick_kind(chs[i])>> ELSE <<>>]
            /\ iterPc' = IF failed \/ allOk THEN "done" ELSE "joining"
    /\ UNCHANGED <<leaderVars, propVars, fetchVars, adapterVars, followerVars, runVars, campaignVars, evalVars>>

\* a tick that runs as a task of its own, which neither the Timeout nor
\* try_join_all stops
tick_request_detached(i) ==
    /\ iterPc \in {"joining", "done"}
    /\ tickState[i] \in {"ticking", "err_timeout", "dropped"}
    /\ Len(tickLog[i]) < 1 + MaxRequests
    /\ tickLog' = [tickLog EXCEPT ![i] =
                        Append(@, IF Len(@) = 1 THEN "read" ELSE "write")]
    /\ UNCHANGED <<iterPc, channels, tickState, iterError>>
    /\ UNCHANGED <<leaderVars, propVars, fetchVars, adapterVars, followerVars, runVars, campaignVars, evalVars>>

\* the tick of channel i, polled inside its Timeout, sends its next request
\* to Sentry: it reads first and writes (propagates) after that
tick_request(i) ==
    /\ iterPc = "joining"
    /\ tickState[i] = "ticking"
    /\ Len(tickLog[i]) < 1 + MaxRequests
    /\ tickLog' = [tickLog EXCEPT ![i] =
                        Append(@, IF Len(@) = 1 THEN "read" ELSE "write")]
    /\ UNCHANGED <<iterPc, channels, tickState, iterError>>
    /\ UNCHANGED <<leaderVars, propVars, fetchVars, adapterVars, followerVars, runVars, campaignVars, evalVars>>

\* the tick of channel i returned Ok within the timeout
tick_ok(i) ==
    /\ iterPc = "joining"
    /\ tickState[i] = "ticking"
    /\ channels[i].fate = "ok"
    /\ tickState' = [tickState EXCEPT ![i] = "ok"]
    /\ iterPc' = IF \A j \in DOMAIN tickState' : tickState'[j] = "ok"
                 THEN "done" ELSE "joining"
    /\ UNCHANGED <<channels, iterError, tickLog>>
    /\ UNCHANGED <<leaderVars, propVars, fetchVars, adapterVars, followerVars, runVars, campaignVars, evalVars>>

\* the tick of channel i returned Err, or its timeout expired: validator_tick
\* returns Err(Failed) and try_join_all resolves to that error at once
tick_failed(i) ==
    /\ iterPc = "joining"
    /\ tickState[i] = "ticking"
    /\ channels[i].fate \in {"err", "timeout"}
    /\ tickState' = DropPending([tickState EXCEPT ![i] =
                        IF channels[i].fate = "timeout" THEN "err_timeout" ELSE "err_tick"])
    /\ iterError' = TRUE
    /\ iterPc' = "done"
    /\ UNCHANGED <<channels, tickLog>>
    /\ UNCHANGED <<leaderVars, propVars, fetchVars, adapterVars, followerVars, runVars, campaignVars, evalVars>>

\* the tick of channel i panicked: the panic unwinds through try_join_all and
\* iterate_channels, which are one task, and drops every other future
tick_panicked(i) ==
    /\ iterPc = "joining"
    /\ tickState[i] = "ticking"
    /\ channels[i].fate = "panic"
    /\ tickState' = DropPending([tickState EXCEPT ![i] = "panic"])
    /\ iterPc' = "panicked"
    /\ UNCHANGED <<channels, iterError, tickLog>>
    /\ UNCHANGED <<leaderVars, propVars, fetchVars, adapterVars, followerVars, runVars, campaignVars, evalVars>>

NextDriver ==
    \/ all_channels_failed
    \/ iterate_channels
    \/ \E i \in DOMAIN tickState : tick_request(i)
    \/ \E i \in DOMAIN tickState : tick_ok(i)
    \/ \E i \in DOMAIN tickState : tick_failed(i)
    \/ \E i \in DOMAIN tickState : tick_panicked(i)

SpecDriver == InitDriver /\ [][NextDriver]_vars

TypeOK_Driver ==
    /\ iterPc \in {"idle", "joining", "done", "panicked"}
    /\ channels \in ChannelLists
    /\ DOMAIN tickState = DOMAIN channels
    /\ iterError \in BOOLEAN
    /\ DOMAIN tickLog = DOMAIN channels

\* C5: a listed channel in which this node is neither Leader nor Follower is
\* skipped without an error, and every other channel of the iteration is still
\* ticked to completion.
C5_NoneRoleSkipped ==
    \A i \in DOMAIN channels :
        (iterPc = "done" /\ channels[i].initOk /\ channels[i].role = "None")
            => /\ ~IsErr(tickState[i])
               /\ \A j \in DOMAIN channels \ {i} : tickState[j] = OwnOutcome(channels[j])

\* C6: when the tick of one channel exceeds validator_tick_timeout, the ticks
\* of the other channels of the iteration still run to their own completion;
\* the timed-out tick aborts none of them.
C6_TimeoutKeepsSiblings ==
    \A i \in DOMAIN channels :
        tickState[i] = "err_timeout"
            => \A j \in DOMAIN channels \ {i} :
                   tickState[j] \in {"ticking", OwnOutcome(channels[j])}

\* C7: a panic in the tick of one channel leaves the outcome of every other
\* channel of the iteration what it would have been without that channel.
C7_PanicKeepsSiblings ==
    \A i \in DOMAIN channels :
        tickState[i] = "panic"
            => \A j \in DOMAIN channels \ {i} :
                   tickState[j] \in {"ticking", OwnOutcome(channels[j])}

(***************************************************************************)
(* SentryApi::propagate: join_all over one propagate_to future per entry   *)
(* of the propagate_to map.                                                *)
(***************************************************************************)
PropIds == {"leader", "follower", "guardian"}

InitPropagate ==
    /\ propPc = "idle"
    /\ propTargets \in SUBSET PropIds
    /\ propOrder \in Orders(propTargets)
    /\ propServer \in [propTargets -> ServerAnswers]
    /\ propSent = {}
    /\ propReady = [id \in propTargets |-> NoMsg]
    /\ propResults = <<>>
    /\ LeaderIdle /\ DriverIdle /\ FetchIdle /\ AdapterIdle /\ FollowerIdle /\ RunIdle /\ CampaignIdle /\ EvalIdle

\* join_all resolves once every future is ready, with the results in
\* iteration order
JoinAll(order, ready) == [i \in DOMAIN order |-> ready[order[i]]]

\* the first poll of join_all polls every future: every POST is sent
propagate_start ==
    /\ propPc = "idle"
    /\ propSent' = propTargets
    /\ propPc' = IF propTargets = {} THEN "done" ELSE "sent"
    /\ propResults' = <<>>
    /\ UNCHANGED <<propTargets, propOrder, propServer, propReady>>
    /\ UNCHANGED <<leaderVars, driverVars, fetchVars, adapterVars, followerVars, runVars, campaignVars, evalVars>>

\* the POST to one target is answered, fails or times out
propagate_answer(id) ==
    /\ propPc = "sent"
    /\ id \in propSent
    /\ propReady[id] = NoMsg
    /\ propReady' = [propReady EXCEPT ![id] = propagate_to(id, propServer[id])]
    /\ IF \A t \in propTargets : propReady'[t] # NoMsg
       THEN /\ propResults' = JoinAll(propOrder, propReady')
            /\ propPc' = "done"
       ELSE UNCHANGED <<propResults, propPc>>
    /\ UNCHANGED <<propTargets, propOrder, propServer, propSent>>
    /\ UNCHANGED <<leaderVars, driverVars, fetchVars, adapterVars, followerVars, runVars, campaignVars, evalVars>>

NextPropagate ==
    \/ propagate_start
    \/ \E id \in propTargets : propagate_answer(id)

SpecPropagate == InitPropagate /\ [][NextPropagate]_vars

\* C8: propagate returns exactly one outcome per validator in propagate_to,
\* tagged with that validator's id: Ok(id) when its Sentry answered,
\* Err((id, Request)) otherwise; the POST is sent to every target whatever
\* happens to the others.
C8_OneOutcomePerTarget ==
    /\ propPc \in {"sent", "done"} => propSent = propTargets
    /\ propPc = "done" =>
        /\ Len(propResults) = Cardinality(propTargets)
        /\ \A id \in propTargets :
            /\ Cardinality({i \in DOMAIN propResults : propResults[i].id = id}) = 1
            /\ \A i \in DOMAIN propResults :
                propResults[i].id = id =>
                    propResults[i] =
                        IF propServer[id] = "success"
                        THEN [ok |-> TRUE, id |-> id]
                        ELSE [ok |-> FALSE, id |-> id, error |-> "Request"]

C8_Witness ==
    /\ propPc = "done"
    /\ Len(propResults) = 3
    /\ propServer["leader"] = "timeout"
    /\ propServer["follower"] = "success"
    /\ propServer["guardian"] = "request_error"
    /\ \E i \in DOMAIN propResults : propResults[i] = [ok |-> TRUE, id |-> "follower"]

(***************************************************************************)
(* Paginated fetches: get_all_spenders, channels::all_channels,            *)
(* campaigns::all_campaigns.  Page 0 is awaited, then pages                *)
(* 1 .. total_pages-1 are fetched under try_join_all.                      *)
(***************************************************************************)
FetchKinds == {"spenders", "channels", "campaigns"}

\* what a listing holds: a key (the spender's Address, the id of a Channel or
\* Campaign) and the record stored for it; a key is listed once
Keys == {1, 2, 3}
Vals == {"x", "y"}

RECURSIVE SortedKeys(_)
SortedKeys(K) ==
    IF K = {} THEN <<>>
    ELSE LET m == CHOOSE k \in K : \A o \in K : k <= o
         IN  <<m>> \o SortedKeys(K \ {m})

\* the page of a listing that holds the keys K
PageOf(K, val) == [i \in DOMAIN SortedKeys(K) |->
                      [key |-> SortedKeys(K)[i], val |-> val[SortedKeys(K)[i]]]]

\* the listings a Sentry can serve: n pages, every key on at most one page
Listings ==
    UNION {{[p \in 1 .. n |-> PageOf({k \in Keys : at[k] = p}, val)] :
                at \in [Keys -> 0 .. n], val \in [Keys -> Vals]} :
           n \in 0 .. MaxPages}

\* pagination.total_pages of every response
TotalPages == Len(srvPages)

\* the entries of the response for ?page=p (pages count from 0)
ServerPage(p) == IF p + 1 \in DOMAIN srvPages THEN srvPages[p + 1] ELSE <<>>

\* collect() into a HashMap: the entries are inserted in order
RECURSIVE CollectMap(_)
CollectMap(entries) ==
    IF entries = <<>> THEN EmptyMap
    ELSE LET init == CollectMap(SubSeq(entries, 1, Len(entries) - 1))
             e == entries[Len(entries)]
         IN  [k \in DOMAIN init \cup {e.key} |-> IF k = e.key THEN e.val ELSE init[k]]

\* the pages requested after page 0: (1..first_page.pagination.total_pages)
rest_pages_from_zero(total_pages) == 0 .. total_pages - 1

rest_pages(total_pages) == 1 .. total_pages - 1

\* once(first_page).chain(all).flat_map(..): the entries of the pages in order
RECURSIVE ChainPages(_, _)
ChainPages(from, to) ==
    IF from > to THEN <<>> ELSE ServerPage(from) \o ChainPages(from + 1, to)

fetched_entries_without_first(total_pages) ==
    IF total_pages < 2 THEN ServerPage(0) ELSE ChainPages(1, total_pages - 1)

fetched_entries(total_pages) ==
    IF total_pages < 2 THEN ServerPage(0) ELSE ChainPages(0, total_pages - 1)

\* Ok(..) of the fetch: a HashMap for the spenders, a Vec for the others
FetchOk(kind, total_pages) ==
    Ok(IF kind = "spenders"
       THEN CollectMap(fetched_entries(total_pages))
       ELSE fetched_entries(total_pages))

Req(p) == [ev |-> "request", page |-> p]
Resp(p, ok) == [ev |-> "response", page |-> p, ok |-> ok]

RECURSIVE RequestAll(_, _)
RequestAll(pages, log) ==
    IF pages = {} THEN log
    ELSE LET m == CHOOSE k \in pages : \A o \in pages : k <= o
         IN  RequestAll(pages \ {m}, Append(log, Req(m)))

InitFetch ==
    /\ fetchKind \in FetchKinds
    /\ fetchPc = "idle"
    /\ srvPages \in Listings
    /\ pageState = [p \in 0 .. MaxPages - 1 |-> "none"]
    /\ reqLog = <<>>
    /\ fetchResult = NoMsg
    /\ LeaderIdle /\ DriverIdle /\ PropIdle /\ AdapterIdle /\ FollowerIdle /\ RunIdle /\ CampaignIdle /\ EvalIdle

\* the fetch is called: page 0 is requested and awaited
fetch_first_page ==
    /\ fetchPc = "idle"
    /\ fetchPc' = "page0"
    /\ pageState' = [pageState EXCEPT ![0] = "requested"]
    /\ reqLog' = Append(reqLog, Req(0))
    /\ UNCHANGED <<fetchKind, srvPages, fetchResult>>
    /\ UNCHANGED <<leaderVars, driverVars, propVars, adapterVars, followerVars, runVars, campaignVars, evalVars>>

\* the request for page 0 failed: `?` returns the error
first_page_failed ==
    /\ fetchPc = "page0"
    /\ fetchPc' = "done"
    /\ pageState' = [pageState EXCEPT ![0] = "err"]
    /\ reqLog' = Append(reqLog, Resp(0, FALSE))
    /\ fetchResult' = Err("Request")
    /\ UNCHANGED <<fetchKind, srvPages>>
    /\ UNCHANGED <<leaderVars, driverVars, propVars, adapterVars, followerVars, runVars, campaignVars, evalVars>>

\* page 0 arrived: with total_pages < 2 it is the result, otherwise the first
\* poll of try_join_all sends the requests for the remaining pages
first_page_received ==
    /\ fetchPc = "page0"
    /\ LET log == Append(reqLog, Resp(0, TRUE))
           rest == rest_pages(TotalPages)
       IN  IF TotalPages < 2
           THEN /\ fetchPc' = "done"
                /\ pageState' = [pageState EXCEPT ![0] = "ok"]
                /\ reqLog' = log
                /\ fetchResult' = FetchOk(fetchKind, TotalPages)
           ELSE /\ fetchPc' = "rest"
                /\ pageState' = [p \in DOMAIN pageState |->
                                    IF p \in rest THEN "requested"
                                    ELSE IF p = 0 THEN "ok" ELSE pageState[p]]
                /\ reqLog' = RequestAll(rest, log)
                /\ fetchResult' = NoMsg
    /\ UNCHANGED <<fetchKind, srvPages>>
    /\ UNCHANGED <<leaderVars, driverVars, propVars, adapterVars, followerVars, runVars, campaignVars, evalVars>>

\* a page >= 1 arrived; the last one completes try_join_all and the result
rest_page_received(p) ==
    /\ fetchPc = "rest"
    /\ pageState[p] = "requested"
    /\ pageState' = [pageState EXCEPT ![p] = "ok"]
    /\ reqLog' = Append(reqLog, Resp(p, TRUE))
    /\ IF \A q \in DOMAIN pageState' : pageState'[q] # "requested"
       THEN /\ fetchPc' = "done"
            /\ fetchResult' = FetchOk(fetchKind, TotalPages)
       ELSE UNCHANGED <<fetchPc, fetchResult>>
    /\ UNCHANGED <<fetchKind, srvPages>>
    /\ UNCHANGED <<leaderVars, driverVars, propVars, adapterVars, followerVars, runVars, campaignVars, evalVars>>

\* a fetch that answers a failed page with the pages it has
rest_page_failed_keeps_pages(p) ==
    /\ fetchPc = "rest"
    /\ pageState[p] = "requested"
    /\ pageState' = [pageState EXCEPT ![p] = "err"]
    /\ reqLog' = Append(reqLog, Resp(p, FALSE))
    /\ fetchPc' = "done"
    /\ fetchResult' = Ok(IF fetchKind = "spenders" THEN CollectMap(ServerPage(0))
                         ELSE ServerPage(0))
    /\ UNCHANGED <<fetchKind, srvPages>>
    /\ UNCHANGED <<leaderVars, driverVars, propVars, adapterVars, followerVars, runVars, campaignVars, evalVars>>

\* the request for a page >= 1 failed: try_join_all resolves to the error
rest_page_failed(p) ==
    /\ fetchPc = "rest"
    /\ pageState[p] = "requested"
    /\ pageState' = [pageState EXCEPT ![p] = "err"]
    /\ reqLog' = Append(reqLog, Resp(p, FALSE))
    /\ fetchPc' = "done"
    /\ fetchResult' = Err("Request")
    /\ UNCHANGED <<fetchKind, srvPages>>
    /\ UNCHANGED <<leaderVars, driverVars, propVars, adapterVars, followerVars, runVars, campaignVars, evalVars>>

NextFetch ==
    \/ fetch_first_page
    \/ first_page_failed
    \/ first_page_received
    \/ \E p \in DOMAIN pageState : rest_page_received(p)
    \/ \E p \in DOMAIN pageState : rest_page_failed(p)

SpecFetch == InitFetch /\ [][NextFetch]_vars

\* every entry of the pages 0 .. total_pages-1 of the listing
ListedEntries ==
    UNION {{srvPages[p][i] : i \in DOMAIN srvPages[p]} : p \in DOMAIN srvPages}

NumRequests(p) == Cardinality({i \in DOMAIN reqLog : reqLog[i] = Req(p)})

\* C9: whatever total_pages page 0 reports (0 and 1 included), when every page
\* request succeeds get_all_spenders returns exactly the entries of the pages
\* 0 .. total_pages-1: every entry of every page, and nothing else.
C9_AllSpendersIsUnionOfPages ==
    (fetchKind = "spenders" /\ fetchPc = "done" /\ fetchResult.ok)
        => /\ \A e \in ListedEntries :
                e.key \in DOMAIN fetchResult.value /\ fetchResult.value[e.key] = e.val
           /\ \A k \in DOMAIN fetchResult.value :
                [key |-> k, val |-> fetchResult.value[k]] \in ListedEntries

C9_Witness ==
    /\ fetchKind = "spenders"
    /\ fetchPc = "done"
    /\ fetchResult.ok
    /\ TotalPages = 3
    /\ \A p \in DOMAIN srvPages : srvPages[p] # <<>>
    /\ DOMAIN fetchResult.value = Keys

\* C10: in every paginated fetch page 0 is requested and its response
\* received before any page >= 1 is requested; then each page
\* 1 .. total_pages-1 is requested exactly once, and no further page is
\* requested when total_pages < 2.
C10_PageZeroFirstThenEachOnce ==
    /\ \A i \in DOMAIN reqLog :
        (reqLog[i].ev = "request" /\ reqLog[i].page >= 1)
            => \E j \in 1 .. i - 1 : reqLog[j] = Resp(0, TRUE)
    /\ reqLog # <<>> => reqLog[1] = Req(0)
    /\ NumRequests(0) <= 1
    /\ (\E j \in DOMAIN reqLog : reqLog[j] = Resp(0, TRUE))
        => \A p \in 1 .. MaxPages :
               NumRequests(p) = IF p <= TotalPages - 1 THEN 1 ELSE 0
    /\ (\A j \in DOMAIN reqLog : reqLog[j] # Resp(0, TRUE))
        => \A p \in 1 .. MaxPages : NumRequests(p) = 0

C10_Witness ==
    /\ fetchKind = "campaigns"
    /\ fetchPc = "done"
    /\ fetchResult.ok
    /\ TotalPages = 3
    /\ NumRequests(1) = 1
    /\ NumRequests(2) = 1

\* C38: a paginated fetch is all-or-nothing: once the request for a page,
\* page 0 or a later one, has failed, the fetch is over and its result is
\* the error, whatever pages had arrived; a fetch that returns Ok has
\* received every page 0 .. total_pages-1.
C38_FetchAllOrNothing ==
    /\ (\E p \in DOMAIN pageState : pageState[p] = "err")
            => (fetchPc = "done" /\ fetchResult = Err("Request"))
    /\ (fetchPc = "done" /\ fetchResult # Err("Request"))
            => \A p \in 0 .. TotalPages - 1 : pageState[p] = "ok"

C38_Witness ==
    /\ fetchKind = "channels"
    /\ fetchPc = "done"
    /\ pageState[0] = "ok"
    /\ pageState[1] = "ok"
    /\ pageState[2] = "err"
    /\ ServerPage(0) # <<>>
    /\ fetchResult = Err("Request")

(***************************************************************************)
(* Ethereum adapter part: the adapter of this node, the Sentry client      *)
(* built around it, and the calls made on them.                            *)
(***************************************************************************)
\* what keystore_json and keystore_pwd can hold once init has returned Ok:
\* a key file with the matching password, a JSON value that is no key file,
\* or a key file the password does not decrypt
Keystores == {"good", "bad_json", "bad_password"}

\* SafeAccount::from_file(serde_json::from_value(keystore_json)?, None, &Some(pwd))
SafeAccount_from_file(ks) ==
    IF ks = "bad_json" THEN Err("Failed")
    ELSE IF ks = "bad_password" THEN Err("Failed")
    ELSE Ok("Some")

\* an unlock that stores an account whatever from_file answered
unlock_stores_account_anyway(ks, w) ==
    LET account == SafeAccount_from_file(ks)
    IN  [result |-> IF account.ok THEN Ok("unit") ELSE Err("Failed"), wallet |-> "Some"]

\* EthereumAdapter::unlock: the result and the wallet afterwards
unlock(ks, w) ==
    LET account == SafeAccount_from_file(ks)
    IN  IF account.ok
        THEN [result |-> Ok("unit"), wallet |-> account.value]
        ELSE [result |-> Err("Failed"), wallet |-> w]

\* the entries of a propagation list: Validator {url, token}
ValidatorEntries == {[url |-> "url1", token |-> "token1"], [url |-> "url2", token |-> "token2"]}

\* Validators = HashMap<ValidatorId, Validator>
Validators == PartialMaps(PropIds, ValidatorEntries)

\* an init that takes any entry of the list as the whoami record
SentryApi_init_any_entry(whoami, validators, client_built) ==
    IF ~client_built THEN Err("BuildingClient")
    ELSE IF DOMAIN validators = {} THEN Err("WhoamiMissing")
    ELSE Ok([adapter |-> whoami,
             whoami |-> validators[CHOOSE v \in DOMAIN validators : TRUE],
             propagate_to |-> validators])

\* SentryApi::init; client_built: Client::builder().timeout(..).build() is Ok
SentryApi_init(whoami, validators, client_built) ==
    IF ~client_built THEN Err("BuildingClient")
    ELSE IF whoami \notin DOMAIN validators THEN Err("WhoamiMissing")
    ELSE Ok([adapter |-> whoami,
             whoami |-> validators[whoami],
             propagate_to |-> validators])

\* a propagate that posts to the other validators only
propagate_urls_others(api) ==
    {api.propagate_to[v].url : v \in DOMAIN api.propagate_to \ {api.adapter}}

\* the Sentries SentryApi::propagate posts a batch to: validator.url of every
\* entry of propagate_to
propagate_urls(api) ==
    {api.propagate_to[v].url : v \in DOMAIN api.propagate_to}

\* the Sentry get_latest_msg (so get_our_latest_msg), get_last_approved and
\* get_accounting send their GET to: self.whoami.url
read_url(api) == api.whoami.url

\* the values Utc::now().timestamp_millis() takes, in steps of half a minute
MaxClock == 6
\* era = floor(now_ms / 60000.0)
MsPerMinute == 60000
HalfMinuteMs == MsPerMinute \div 2
Clock == {k * HalfMinuteMs : k \in 0 .. MaxClock}

InitAdapter ==
    /\ keystore \in Keystores
    /\ wallet = "None"
    /\ unlockSucceeded = FALSE
    /\ adOp = "none"
    /\ adArgs = NoMsg
    /\ adResult = NoMsg
    /\ relayerCalls = <<>>
    /\ LeaderIdle /\ DriverIdle /\ PropIdle /\ FetchIdle /\ FollowerIdle /\ RunIdle /\ CampaignIdle /\ EvalIdle

\* the caller takes the Result of the call and goes on
take_result ==
    /\ adOp # "none"
    /\ adOp' = "none"
    /\ adArgs' = NoMsg
    /\ adResult' = NoMsg
    /\ relayerCalls' = <<>>
    /\ UNCHANGED <<keystore, wallet, unlockSucceeded>>
    /\ UNCHANGED <<leaderVars, driverVars, propVars, fetchVars, followerVars, runVars, campaignVars, evalVars>>

\* a call of adapter.unlock()
call_unlock ==
    LET r == unlock(keystore, wallet)
    IN  /\ adOp = "none"
        /\ adOp' = "unlock"
        /\ adArgs' = NoMsg
        /\ adResult' = r.result
        /\ wallet' = r.wallet
        /\ unlockSucceeded' = (unlockSucceeded \/ r.result.ok)
        /\ relayerCalls' = <<>>
        /\ UNCHANGED keystore
        /\ UNCHANGED <<leaderVars, driverVars, propVars, fetchVars, followerVars, runVars, campaignVars, evalVars>>

\* a call of SentryApi::init(adapter, logger, config, propagate_to)
call_SentryApi_init ==
    /\ adOp = "none"
    /\ \E validators \in Validators, client_built \in BOOLEAN :
            /\ adOp' = "SentryApi_init"
            /\ adArgs' = [propagate_to |-> validators, client_built |-> client_built]
            /\ adResult' = SentryApi_init(Whoami, validators, client_built)
            /\ relayerCalls' = <<>>
            /\ UNCHANGED <<keystore, wallet, unlockSucceeded>>
            /\ UNCHANGED <<leaderVars, driverVars, propVars, fetchVars, followerVars, runVars, campaignVars, evalVars>>

\* C11 (as stated): SentryApi::init succeeds only if propagate_to has an entry
\* for adapter.whoami(), and then the client's whoami record is that entry;
\* otherwise it fails with WhoamiMissing and no client is constructed.
C11_InitNeedsWhoamiEntry ==
    adOp = "SentryApi_init"
        => /\ adResult.ok
                => /\ Whoami \in DOMAIN adArgs.propagate_to
                   /\ adResult.value.whoami = adArgs.propagate_to[Whoami]
           /\ Whoami \notin DOMAIN adArgs.propagate_to
                => adResult = Err("WhoamiMissing")

\* C11 (amended): SentryApi::init succeeds exactly when the HTTP client could
\* be built and propagate_to has an entry for adapter.whoami(); the client
\* then holds that entry as its whoami record and the list as it was given.
\* When the HTTP client cannot be built it fails with BuildingClient, whether
\* the entry is there or not; when the client is built and the entry is
\* missing it fails with WhoamiMissing. No failure constructs a client.
C11_InitNeedsClientAndWhoamiEntry ==
    adOp = "SentryApi_init"
        => LET pt == adArgs.propagate_to
           IN  /\ adResult.ok <=> (adArgs.client_built /\ Whoami \in DOMAIN pt)
               /\ adResult.ok
                    => /\ adResult.value.whoami = pt[Whoami]
                       /\ adResult.value.propagate_to = pt
               /\ ~adArgs.client_built => adResult = Err("BuildingClient")
               /\ (adArgs.client_built /\ Whoami \notin DOMAIN pt)
                    => adResult = Err("WhoamiMissing")

C11_Witness ==
    /\ adOp = "SentryApi_init"
    /\ adResult.ok
    /\ DOMAIN adArgs.propagate_to = PropIds
    /\ adArgs.propagate_to["follower"] # adArgs.propagate_to[Whoami]
    /\ adResult.value.whoami = adArgs.propagate_to[Whoami]

(***************************************************************************)
(* Digests and signatures as the adapter reads and writes them.            *)
(***************************************************************************)
\* the characters of a text: three hex digits (one in both cases) and one
\* character that is no hex digit
HexDigits == {"a", "A", "1"}
TextChars == HexDigits \cup {"g"}
MaxTextLen == 2
Texts == UNION {[1 .. n -> TextChars] : n \in 0 .. MaxTextLen}

HexVal(c) == IF c \in {"a", "A"} THEN 10 ELSE 1

\* hex::decode: an odd length or a character that is no hex digit is an error
hex_decode(t) ==
    IF Len(t) % 2 # 0 \/ \E i \in DOMAIN t : t[i] \notin HexDigits
    THEN Err("FromHexError")
    ELSE Ok([i \in 1 .. Len(t) \div 2 |-> 16 * HexVal(t[2 * i - 1]) + HexVal(t[2 * i])])

\* the byte strings the texts decode to
DigestBytes == {hex_decode(t).value : t \in {x \in Texts : hex_decode(x).ok}}

\* hash_message: keccak256 of the prefix, the length and the message bytes,
\* as an ideal (collision-free) hash; sign and verify pass the decoded bytes
\* through from_utf8_unchecked, and len() and format! copy them as they are
hash_message(message) ==
    <<"keccak256", "Ethereum Signed Message:", Len(message), message>>

\* the keys that exist: ours, another validator's, a stranger's
Signers == {Whoami, "follower", "mallory"}

\* SafeAccount::sign(password, message) with the key of `signer`: an ideal
\* signature, 65 bytes r || s || v with v in {0, 1}
Signature(signer, message) ==
    [len |-> 65, electrum |-> FALSE, signer |-> signer, message |-> message]

\* the all-zero signature (Signature::default())
ZeroSignature == [len |-> 65, electrum |-> FALSE, signer |-> "nobody", message |-> <<>>]

\* wallet.sign(&self.keystore_pwd, &message): the password has to decrypt the
\* key; the key is the one of the address init read from the keystore
wallet_sign(ks, message) ==
    IF ks = "good" THEN Ok(Signature(Whoami, message)) ELSE Err("InvalidPassword")

\* Signature::into_electrum: v becomes v + 27
into_electrum(sig) == [sig EXCEPT !.electrum = TRUE]

\* Signature::from_electrum: anything but 65 bytes with v >= 27 is the zero signature
from_electrum(bytes) ==
    IF bytes.len # 65 \/ ~bytes.electrum
    THEN ZeroSignature
    ELSE [bytes EXCEPT !.electrum = FALSE]

\* recover(signature, message): the address of the key that signed `message`;
\* a signature over another message recovers to an address nobody holds
recover(sig, message) ==
    IF sig = ZeroSignature THEN Err("InvalidSignature")
    ELSE IF sig.message = message THEN Ok(sig.signer)
    ELSE Ok("nobody")

\* a signature text: the "0x" prefix (or none) and the hex body
SigText(prefixed, is_hex, bytes) == [prefixed |-> prefixed, is_hex |-> is_hex, bytes |-> bytes]

\* format!("0x{}", signature)
format_0x(sig) == SigText(TRUE, TRUE, sig)

\* a sign that looks at the digest before it looks at the wallet
adapter_sign_wallet_last(w, ks, state_root) ==
    LET decoded == hex_decode(state_root)
    IN  IF ~decoded.ok THEN Err("Signature")
        ELSE IF w = "Some"
        THEN LET wallet_signed == wallet_sign(ks, hash_message(decoded.value))
             IN  IF ~wallet_signed.ok THEN Err("Failed")
                 ELSE Ok(format_0x(into_electrum(wallet_signed.value)))
        ELSE Err("Configuration")

\* EthereumAdapter::sign(state_root), on the text it is given
adapter_sign(w, ks, state_root) ==
    IF w = "Some"
    THEN LET decoded == hex_decode(state_root)
         IN  IF ~decoded.ok THEN Err("Signature")
             ELSE LET wallet_signed == wallet_sign(ks, hash_message(decoded.value))
                  IN  IF ~wallet_signed.ok THEN Err("Failed")
                      ELSE Ok(format_0x(into_electrum(wallet_signed.value)))
    ELSE Err("Configuration")

\* a verify that checks the signature against the empty message
verify_constant_message(signer, state_root, sig) ==
    IF ~sig.prefixed THEN Err("Signature")
    ELSE IF ~sig.is_hex THEN Err("Signature")
    ELSE LET signature == from_electrum(sig.bytes)
             decoded == hex_decode(state_root)
         IN  IF ~decoded.ok THEN Err("Signature")
             ELSE LET recovered == recover(signature, hash_message(<<>>))
                  IN  IF recovered.ok THEN Ok(recovered.value = signer) ELSE Ok(FALSE)

\* EthereumAdapter::verify(signer, state_root, sig)
verify(signer, state_root, sig) ==
    IF ~sig.prefixed THEN Err("Signature")
    ELSE IF ~sig.is_hex THEN Err("Signature")
    ELSE LET signature == from_electrum(sig.bytes)
             decoded == hex_decode(state_root)
         IN  IF ~decoded.ok THEN Err("Signature")
             ELSE LET message == hash_message(decoded.value)
                      recovered == recover(signature, message)
                  IN  IF recovered.ok THEN Ok(recovered.value = signer) ELSE Ok(FALSE)

\* the signature texts a caller can hand to verify: what sign of some key
\* returned for some digest, and that text with one thing wrong
GoodSigTexts ==
    {format_0x(into_electrum(Signature(k, hash_message(b)))) :
        k \in {Whoami, "follower"}, b \in DigestBytes}

SigTexts ==
    GoodSigTexts
    \cup {[t EXCEPT !.prefixed = FALSE] : t \in GoodSigTexts}
    \cup {[t EXCEPT !.is_hex = FALSE] : t \in GoodSigTexts}
    \cup {[t EXCEPT !.bytes.len = 64] : t \in GoodSigTexts}
    \cup {[t EXCEPT !.bytes.electrum = FALSE] : t \in GoodSigTexts}

\* a call of adapter.sign(state_root)
call_sign ==
    /\ adOp = "none"
    /\ \E state_root \in Texts :
            /\ adOp' = "sign"
            /\ adArgs' = [state_root |-> state_root]
            /\ adResult' = adapter_sign(wallet, keystore, state_root)
            /\ relayerCalls' = <<>>
            /\ UNCHANGED <<keystore, wallet, unlockSucceeded>>
            /\ UNCHANGED <<leaderVars, driverVars, propVars, fetchVars, followerVars, runVars, campaignVars, evalVars>>

\* a call of adapter.verify(signer, state_root, sig)
call_verify ==
    /\ adOp = "none"
    /\ \E signer \in {Whoami, "follower"}, state_root \in Texts, sig \in SigTexts :
            /\ adOp' = "verify"
            /\ adArgs' = [signer |-> signer, state_root |-> state_root, sig |-> sig]
            /\ adResult' = verify(signer, state_root, sig)
            /\ relayerCalls' = <<>>
            /\ UNCHANGED <<keystore, wallet, unlockSucceeded>>
            /\ UNCHANGED <<leaderVars, driverVars, propVars, fetchVars, followerVars, runVars, campaignVars, evalVars>>

\* C13: sign on an adapter on which no unlock has succeeded before fails with
\* a Configuration error and yields no signature; once an unlock has
\* succeeded, sign of a valid hex digest returns the 0x-prefixed signature of
\* this node's key over the hash of the digest's bytes.
C13_SignNeedsUnlock ==
    adOp = "sign"
        => LET decoded == hex_decode(adArgs.state_root)
           IN  /\ ~unlockSucceeded => adResult = Err("Configuration")
               /\ (unlockSucceeded /\ decoded.ok)
                    => adResult =
                         Ok(SigText(TRUE, TRUE,
                                    [len |-> 65, electrum |-> TRUE, signer |-> Whoami,
                                     message |-> hash_message(decoded.value)]))

C13_Witness ==
    /\ adOp = "sign"
    /\ unlockSucceeded
    /\ adArgs.state_root = <<"a", "1">>
    /\ adResult.ok

\* C14: verify never returns an error; for every malformed input (a signature
\* without the 0x prefix, a signature that is not hex, a digest that is not
\* hex, a signature of the wrong length) it returns false.
C14_VerifyNeverErrs ==
    adOp = "verify"
        => /\ adResult.ok
           /\ (\/ ~adArgs.sig.prefixed
               \/ ~adArgs.sig.is_hex
               \/ adArgs.sig.bytes.len # 65
               \/ ~hex_decode(adArgs.state_root).ok) => adResult = Ok(FALSE)

\* C15: for an unlocked adapter and every digest h, verify(whoami, h', sign(h))
\* is true when h' is the digest h and false when h' is another digest
\* (digests are compared as the bytes their hex texts stand for).
C15_SignVerifyRoundTrip ==
    \A h \in Texts :
        LET signed == adapter_sign(wallet, keystore, h)
        IN  (/\ adOp = "verify"
             /\ wallet = "Some"
             /\ signed.ok
             /\ adArgs.signer = Whoami
             /\ adArgs.sig = signed.value
             /\ hex_decode(adArgs.state_root).ok)
                => adResult = Ok(hex_decode(adArgs.state_root).value = hex_decode(h).value)

C15_Witness ==
    /\ adOp = "verify"
    /\ wallet = "Some"
    /\ adArgs.signer = Whoami
    /\ adArgs.sig = adapter_sign(wallet, keystore, <<"a", "1">>).value
    /\ adArgs.state_root = <<"1", "a">>
    /\ adResult = Ok(FALSE)

(***************************************************************************)
(* Ethereum Web Tokens: ewt_sign, ewt_verify, get_auth, session_from_token *)
(***************************************************************************)
\* ValidatorId::to_checksum: the EIP-55 text of an address; lower_hex is the
\* same address written in lower case, another text
to_checksum(id) == <<"0x", "checksum", id>>
lower_hex(id) == <<"0x", "lower", id>>

\* era: floor(now_ms / 60000.0)
era_of(now_ms) == now_ms \div MsPerMinute
Eras == {era_of(t) : t \in Clock}

\* the identities a token can name and the relayer can know of
Identities == {"identity1", "identity2"}

\* Payload {id, era, address, identity}; identity "None" is Option::None
Payload(id, era, address, identity) ==
    [id |-> id, era |-> era, address |-> address, identity |-> identity]

\* Header {type: "JWT", alg: "ETH"}
Header == [header_type |-> "JWT", alg |-> "ETH"]

\* one dot-free part of a token text: base64url of a JSON text or of bytes,
\* or a text that is no base64url at all
base64_json(x) == [b64 |-> TRUE, kind |-> "json", value |-> x]
base64_bytes(x) == [b64 |-> TRUE, kind |-> "bytes", value |-> x]
NotBase64 == [b64 |-> FALSE, kind |-> "none", value |-> <<>>]

\* a token text: whether it has fewer than 16 characters, and what
\* token.split('.') yields
TokenText(under16, parts) == [under16 |-> under16, parts |-> parts]

\* ewt_sign(signer, password, payload); ks: whether the password decrypts the key
ewt_sign(signer, ks, payload) ==
    LET header_encoded == base64_json(Header)
        payload_encoded == base64_json(payload)
        message == hash_message(<<header_encoded, ".", payload_encoded>>)
    IN  IF ks # "good" THEN Err("sign message")
        ELSE LET signature == into_electrum(Signature(signer, message))
                 token == base64_bytes(signature)
             IN  Ok(TokenText(FALSE, <<header_encoded, payload_encoded, token>>))

\* ewt_verify(header_encoded, payload_encoded, token)
ewt_verify(header_encoded, payload_encoded, token) ==
    LET message == hash_message(<<header_encoded, ".", payload_encoded>>)
    IN  IF ~token.b64 THEN Err("base64")
        ELSE LET signature == IF token.kind = "bytes"
                              THEN from_electrum(token.value)
                              ELSE ZeroSignature
                 recovered == recover(signature, message)
             IN  IF ~recovered.ok THEN Err("recover")
                 ELSE IF ~payload_encoded.b64 THEN Err("base64")
                 ELSE IF payload_encoded.kind # "json" THEN Err("utf8 / json")
                 ELSE IF payload_encoded.value = Header THEN Err("json")
                 ELSE Ok([from |-> recovered.value, payload |-> payload_encoded.value])

\* what GET {relayer_url}/identity/by-owner/{from} can bring: no usable
\* answer, or a map from identities to privilege levels
MaxPrivilege == 1
RelayerAnswers ==
    {[ok |-> FALSE, identities |-> EmptyMap]}
    \cup {[ok |-> TRUE, identities |-> m] : m \in PartialMaps(Identities, 0 .. MaxPrivilege)}

\* a lookup that is content with the identity being listed
has_privileges_listed(answer, from, identity) ==
    IF ~answer.ok THEN Err("Failed")
    ELSE Ok(identity \in DOMAIN answer.identities)

\* RelayerClient::has_privileges(from, identity), given the relayer's answer
has_privileges(answer, from, identity) ==
    IF ~answer.ok THEN Err("Failed")
    ELSE Ok(identity \in DOMAIN answer.identities /\ answer.identities[identity] > 0)

\* a session_from_token that looks the privileges up before the audience check
session_from_token_lookup_first(whoami, token, answer) ==
    IF token.under16 THEN [result |-> Err("Failed"), calls |-> <<>>]
    ELSE IF Len(token.parts) < 3 THEN [result |-> Err("Failed"), calls |-> <<>>]
    ELSE LET verified == ewt_verify(token.parts[1], token.parts[2], token.parts[3])
         IN  IF ~verified.ok THEN [result |-> Err("Failed"), calls |-> <<>>]
             ELSE LET from == verified.value.from
                      payload == verified.value.payload
                      privileged == has_privileges(answer, from, payload.identity)
                      calls == IF payload.identity = "None" THEN <<>>
                               ELSE << <<from, payload.identity>> >>
                  IN  IF to_checksum(whoami) # payload.id
                      THEN [result |-> Err("Configuration"), calls |-> calls]
                      ELSE IF payload.identity = "None"
                      THEN [result |-> Ok([era |-> payload.era, uid |-> from]), calls |-> calls]
                      ELSE IF ~privileged.ok
                      THEN [result |-> Err("Failed"), calls |-> calls]
                      ELSE IF privileged.value
                      THEN [result |-> Ok([era |-> payload.era, uid |-> payload.identity]),
                            calls |-> calls]
                      ELSE [result |-> Err("Authorization"), calls |-> calls]

\* EthereumAdapter::session_from_token(token): the Result and the lookups made;
\* answer is what the relayer brings if it is asked
session_from_token(whoami, token, answer) ==
    IF token.under16 THEN [result |-> Err("Failed"), calls |-> <<>>]
    ELSE IF Len(token.parts) < 3 THEN [result |-> Err("Failed"), calls |-> <<>>]
    ELSE LET verified == ewt_verify(token.parts[1], token.parts[2], token.parts[3])
         IN  IF ~verified.ok THEN [result |-> Err("Failed"), calls |-> <<>>]
             ELSE LET from == verified.value.from
                      payload == verified.value.payload
                  IN  IF to_checksum(whoami) # payload.id
                      THEN [result |-> Err("Configuration"), calls |-> <<>>]
                      ELSE IF payload.identity = "None"
                      THEN [result |-> Ok([era |-> payload.era, uid |-> from]), calls |-> <<>>]
                      ELSE LET privileged == has_privileges(answer, from, payload.identity)
                               calls == << <<from, payload.identity>> >>
                           IN  IF ~privileged.ok
                               THEN [result |-> Err("Failed"), calls |-> calls]
                               ELSE IF privileged.value
                               THEN [result |-> Ok([era |-> payload.era,
                                                    uid |-> payload.identity]),
                                     calls |-> calls]
                               ELSE [result |-> Err("Authorization"), calls |-> calls]

\* a get_auth that writes its own address as the audience
get_auth_for_self(w, ks, whoami, validator, now_ms) ==
    IF w # "Some" THEN Err("Configuration")
    ELSE LET payload == Payload(to_checksum(whoami), era_of(now_ms), "None",
                                to_checksum(whoami))
             token == ewt_sign(whoami, ks, payload)
         IN  IF token.ok THEN token ELSE Err("Failed")

\* EthereumAdapter::get_auth(validator), called at now_ms
get_auth(w, ks, whoami, validator, now_ms) ==
    IF w # "Some" THEN Err("Configuration")
    ELSE LET payload == Payload(to_checksum(validator), era_of(now_ms), "None",
                                to_checksum(whoami))
             token == ewt_sign(whoami, ks, payload)
         IN  IF token.ok THEN token ELSE Err("Failed")

\* the payloads a token can carry
Payloads ==
    {Payload(id, era, address, identity) :
        id \in {to_checksum(Whoami), lower_hex(Whoami), to_checksum("follower")},
        era \in Eras,
        address \in {to_checksum(k) : k \in Signers},
        identity \in {"None", "identity1"}}

\* the tokens any key holder can mint with ewt_sign
MintedTokens == {ewt_sign(k, "good", p).value : k \in Signers, p \in Payloads}

\* texts that are no minted token: too short, too few parts, a fourth part,
\* a payload or a signature that is not base64url, a payload swapped after
\* signing, a signature part that is no signature
OddTokens ==
    LET t == ewt_sign("mallory", "good",
                      Payload(to_checksum(Whoami), 0, to_checksum("mallory"), "None")).value
        u == ewt_sign("mallory", "good",
                      Payload(to_checksum(Whoami), 0, to_checksum(Whoami), "identity1")).value
    IN  {TokenText(TRUE, <<NotBase64>>),
         TokenText(FALSE, <<NotBase64>>),
         TokenText(FALSE, SubSeq(t.parts, 1, 2)),
         TokenText(FALSE, t.parts \o <<NotBase64>>),
         TokenText(FALSE, <<t.parts[1], NotBase64, t.parts[3]>>),
         TokenText(FALSE, <<t.parts[1], t.parts[2], NotBase64>>),
         TokenText(FALSE, <<t.parts[1], u.parts[2], t.parts[3]>>),
         TokenText(FALSE, <<t.parts[1], t.parts[2], t.parts[1]>>),
         TokenText(FALSE, <<t.parts[1], t.parts[1], t.parts[3]>>)}

Tokens == MintedTokens \cup OddTokens

\* a call of adapter.get_auth(validator) at time now_ms
call_get_auth ==
    /\ adOp = "none"
    /\ \E validator \in ValidatorIds, now_ms \in Clock :
            /\ adOp' = "get_auth"
            /\ adArgs' = [validator |-> validator, now_ms |-> now_ms]
            /\ adResult' = get_auth(wallet, keystore, Whoami, validator, now_ms)
            /\ relayerCalls' = <<>>
            /\ UNCHANGED <<keystore, wallet, unlockSucceeded>>
            /\ UNCHANGED <<leaderVars, driverVars, propVars, fetchVars, followerVars, runVars, campaignVars, evalVars>>

\* a call of adapter.session_from_token(token) at time now_ms; answers: what
\* the relayer brought for each lookup made
call_session_from_token ==
    /\ adOp = "none"
    /\ \E token \in Tokens, answer \in RelayerAnswers, now_ms \in Clock :
            \E r \in {session_from_token(Whoami, token, answer)} :
                /\ adOp' = "session_from_token"
                /\ adArgs' = [token |-> token, now_ms |-> now_ms,
                             answers |-> IF r.calls = <<>> THEN <<>> ELSE <<answer>>]
                /\ adResult' = r.result
                /\ relayerCalls' = r.calls
                /\ UNCHANGED <<keystore, wallet, unlockSucceeded>>
                /\ UNCHANGED <<leaderVars, driverVars, propVars, fetchVars, followerVars, runVars, campaignVars, evalVars>>

\* config.token_valid_until: for how many minutes (eras) a token is good
token_valid_until == 1

\* what ewt_verify makes of the token session_from_token was called with
PresentedVerified ==
    IF adOp = "session_from_token" /\ ~adArgs.token.under16 /\ Len(adArgs.token.parts) >= 3
    THEN ewt_verify(adArgs.token.parts[1], adArgs.token.parts[2], adArgs.token.parts[3])
    ELSE Err("not called")

C17_ExpiredTokenRejected ==
    (adOp = "session_from_token" /\ adResult.ok)
        => PresentedVerified.value.payload.era
              >= era_of(adArgs.now_ms) - token_valid_until

\* C18: session_from_token returns a Session only if the address recovered
\* from the token's signature is the address the payload claims.
C18_SignerIsClaimedAddress ==
    (adOp = "session_from_token" /\ adResult.ok)
        => PresentedVerified.value.payload.address
              = to_checksum(PresentedVerified.value.from)

\* C19: session_from_token returns a Session only for a token whose
\* payload.id is the checksum form of this adapter's whoami(); for any other
\* audience it returns an error and asks the relayer nothing.
C19_AudienceIsWhoami ==
    adOp = "session_from_token"
        => /\ adResult.ok
                => PresentedVerified.value.payload.id = <<"0x", "checksum", Whoami>>
           /\ (PresentedVerified.ok
                 /\ PresentedVerified.value.payload.id # <<"0x", "checksum", Whoami>>)
                => (adResult = Err("Configuration") /\ relayerCalls = <<>>)
           /\ ~PresentedVerified.ok => (~adResult.ok /\ relayerCalls = <<>>)

C19_Witness ==
    /\ adOp = "session_from_token"
    /\ PresentedVerified.ok
    /\ PresentedVerified.value.from = "follower"
    /\ PresentedVerified.value.payload.id = lower_hex(Whoami)
    /\ PresentedVerified.value.payload.identity = "identity1"
    /\ adResult = Err("Configuration")
    /\ relayerCalls = <<>>

\* C20 (as stated): for a valid token (verified, meant for us) that carries a
\* delegated identity, session_from_token returns a Session with uid =
\* identity if and only if the relayer reports privileges > 0 of the signer on
\* that identity, and otherwise fails with an Authorization error; for a token
\* without identity the Session uid is the recovered signer.
C20_DelegationNeedsPrivileges ==
    (adOp = "session_from_token"
       /\ PresentedVerified.ok
       /\ PresentedVerified.value.payload.id = <<"0x", "checksum", Whoami>>)
        => LET from == PresentedVerified.value.from
               payload == PresentedVerified.value.payload
           IN  IF payload.identity = "None"
               THEN adResult = Ok([era |-> payload.era, uid |-> from])
               ELSE LET answer == adArgs.answers[1]
                        reported == /\ answer.ok
                                    /\ payload.identity \in DOMAIN answer.identities
                                    /\ answer.identities[payload.identity] > 0
                    IN  /\ Len(adArgs.answers) = 1
                        /\ IF reported
                           THEN adResult = Ok([era |-> payload.era, uid |-> payload.identity])
                           ELSE adResult = Err("Authorization")

\* C20 (amended): for a valid token that carries a delegated identity,
\* session_from_token asks the relayer once, for the identities of the
\* recovered signer; it returns a Session with uid = identity if and only if
\* the relayer answers and reports privileges > 0 on that identity, fails with
\* an Authorization error when the relayer answers and reports none, and
\* fails with a Failed error when the lookup itself fails. For a token
\* without identity the relayer is not asked and the Session uid is the
\* recovered signer.
C20_DelegationNeedsReportedPrivileges ==
    (adOp = "session_from_token"
       /\ PresentedVerified.ok
       /\ PresentedVerified.value.payload.id = <<"0x", "checksum", Whoami>>)
        => LET from == PresentedVerified.value.from
               payload == PresentedVerified.value.payload
           IN  IF payload.identity = "None"
               THEN /\ adResult = Ok([era |-> payload.era, uid |-> from])
                    /\ relayerCalls = <<>>
               ELSE LET answer == adArgs.answers[1]
                        reported == /\ answer.ok
                                    /\ payload.identity \in DOMAIN answer.identities
                                    /\ answer.identities[payload.identity] > 0
                    IN  /\ Len(adArgs.answers) = 1
                        /\ relayerCalls = << <<from, payload.identity>> >>
                        /\ adResult.ok <=> reported
                        /\ reported
                             => adResult = Ok([era |-> payload.era, uid |-> payload.identity])
                        /\ (answer.ok /\ ~reported) => adResult = Err("Authorization")
                        /\ ~answer.ok => adResult = Err("Failed")

C20_Witness ==
    /\ adOp = "session_from_token"
    /\ PresentedVerified.ok
    /\ PresentedVerified.value.from = "follower"
    /\ PresentedVerified.value.payload.identity = "identity1"
    /\ adArgs.answers = <<[ok |-> TRUE, identities |-> [x \in Identities |-> IF x = "identity1" THEN 0 ELSE 1]]>>
    /\ adResult = Err("Authorization")

\* C29: unlock is idempotent and fails with a Configuration error: every
\* successful call, the first or a repeated one, leaves the wallet holding
\* the account of the keystore, and every failed call (wrong or absent
\* credentials) returns the Configuration error and leaves the wallet locked.
C29_UnlockIdempotentOrConfiguration ==
    adOp = "unlock"
        => /\ adResult.ok => (wallet = "Some" /\ keystore = "good")
           /\ ~adResult.ok => (adResult = Err("Configuration") /\ wallet = "None")

\* CHANNEL_STATE_ACTIVE, the value of AdExCore.states for an open channel
CHANNEL_STATE_ACTIVE == 1

\* the largest value AdExCore.states answers in the model
MaxChannelStatus == 2

\* the fields of a channel that go into its hash
ChannelFields == {"fields1", "fields2"}

\* config.ethereum_core_address
ethereum_core_address == "core"

\* EthereumChannel::hash(contract_addr): the digest of the contract address
\* and the channel's fields
channel_hash(core, fields) == <<"keccak", core, fields>>

\* the ids channels carry: the digests of the field sets under the core address
ChannelIdBytes == {channel_hash(ethereum_core_address, f) : f \in ChannelFields}

\* the validator sets of the channels: with and without this validator
ChannelValidatorSets == {{Whoami, "follower"}, {"follower", "guardian"}}

\* the channels handed to validate_channel
AdapterChannels ==
    [id : ChannelIdBytes,
     fields : ChannelFields,
     validators : ChannelValidatorSets,
     fee : 0..MaxAmount,
     deposit_amount : 0..Deposit,
     valid_until_passed : BOOLEAN,
     convertible : BOOLEAN,
     hashable : BOOLEAN]

\* config.minimal_fee, the lowest validator fee the config accepts
minimal_fee == MaxAmount

\* ChannelValidator::is_channel_valid(config, whoami, channel)
is_channel_valid(whoami, channel) ==
    IF whoami \notin channel.validators THEN Err("AdapterNotIncluded")
    ELSE IF channel.valid_until_passed THEN Err("InvalidValidUntil")
    ELSE IF channel.deposit_amount = 0 THEN Err("MinimumDepositNotMet")
    ELSE IF channel.fee < minimal_fee THEN Err("MinimumValidatorFeeNotMet")
    ELSE Ok("unit")

\* EthereumChannel::try_from(channel)
EthereumChannel_try_from(channel) ==
    IF channel.convertible THEN Ok([fields |-> channel.fields, hashable |-> channel.hashable])
    ELSE Err("ChannelError")

\* EthereumChannel::hash_hex(contract_addr): "0x" and the lower-case hex of the hash
hash_hex(eth_channel, core) ==
    IF eth_channel.hashable
    THEN Ok([prefixed |-> TRUE, hex_of |-> channel_hash(core, eth_channel.fields)])
    ELSE Err("hash")

\* format!("0x{}", hex::encode(channel.id))
our_channel_id(channel) == [prefixed |-> TRUE, hex_of |-> channel.id]

\* what contract.query("states", channel.id) answers: a status, or a failure
\* of the request
StatesQueryAnswers == {Err("query")} \cup {Ok(s) : s \in 0..MaxChannelStatus}

\* a validate_channel that does not compare the id with the hash
validate_channel_id_unchecked(whoami, channel, contract_ok, channel_status) ==
    IF ~is_channel_valid(whoami, channel).ok THEN Err("InvalidChannel")
    ELSE IF ~EthereumChannel_try_from(channel).ok THEN Err("InvalidChannel")
    ELSE IF ~hash_hex(EthereumChannel_try_from(channel).value, ethereum_core_address).ok
         THEN Err("Failed")
    ELSE IF ~contract_ok THEN Err("Failed")
    ELSE IF ~channel_status.ok THEN Err("Failed")
    ELSE IF channel_status.value # CHANNEL_STATE_ACTIVE THEN Err("Configuration")
    ELSE Ok(TRUE)

\* EthereumAdapter::validate_channel(channel), given whether the core contract
\* could be initialised and what its states query answered
validate_channel(whoami, channel, contract_ok, channel_status) ==
    IF ~is_channel_valid(whoami, channel).ok THEN Err("InvalidChannel")
    ELSE LET eth_channel == EthereumChannel_try_from(channel)
         IN  IF ~eth_channel.ok THEN Err("InvalidChannel")
             ELSE LET channel_id == hash_hex(eth_channel.value, ethereum_core_address)
                  IN  IF ~channel_id.ok THEN Err("Failed")
                      ELSE IF channel_id.value # our_channel_id(channel)
                           THEN Err("Configuration")
                      ELSE IF ~contract_ok THEN Err("Failed")
                      ELSE IF ~channel_status.ok THEN Err("Failed")
                      ELSE IF channel_status.value # CHANNEL_STATE_ACTIVE
                           THEN Err("Configuration")
                      ELSE Ok(TRUE)

\* a call of adapter.validate_channel(channel)
call_validate_channel ==
    /\ adOp = "none"
    /\ \E channel \in AdapterChannels, contract_ok \in BOOLEAN,
          channel_status \in StatesQueryAnswers :
            /\ adOp' = "validate_channel"
            /\ adArgs' = [channel |-> channel, contract_ok |-> contract_ok,
                          channel_status |-> channel_status]
            /\ adResult' = validate_channel(Whoami, channel, contract_ok, channel_status)
            /\ relayerCalls' = <<>>
            /\ UNCHANGED <<keystore, wallet, unlockSucceeded>>
            /\ UNCHANGED <<leaderVars, driverVars, propVars, fetchVars, followerVars, runVars, campaignVars, evalVars>>

\* C30: validate_channel answers true only for a channel that passes the
\* structural checks against the config (this validator is in its validator
\* set, the fee is not below the minimum, the deposit is positive, valid_until
\* has not passed), whose id is the hash of its fields under the core
\* contract address, and whose state on the chain is Active; for every other
\* channel the answer is not true.
C30_ValidateChannelTrueOnlyForValid ==
    (adOp = "validate_channel" /\ adResult.ok /\ adResult.value = TRUE)
        => /\ Whoami \in adArgs.channel.validators
           /\ adArgs.channel.fee >= minimal_fee
           /\ adArgs.channel.deposit_amount > 0
           /\ ~adArgs.channel.valid_until_passed
           /\ adArgs.channel.id = channel_hash(ethereum_core_address, adArgs.channel.fields)
           /\ adArgs.channel_status = Ok(CHANNEL_STATE_ACTIVE)

C30_Witness ==
    /\ adOp = "validate_channel"
    /\ adResult = Ok(TRUE)
    /\ adArgs.channel.id = channel_hash(ethereum_core_address, "fields2")

NextAdapter ==
    \/ take_result
    \/ call_unlock
    \/ call_SentryApi_init
    \/ call_sign
    \/ call_verify
    \/ call_get_auth
    \/ call_session_from_token
    \/ call_validate_channel

SpecAdapter == InitAdapter /\ [][NextAdapter]_vars

(***************************************************************************)
(* The Follower tick (validator_tick's Follower arm and follower::tick).   *)
(***************************************************************************)
\* channel.spec.validators: the Leader and the Follower of the channel
LeaderId == "leader"
FollowerId == "follower"

\* adapter.sign of a validator whose wallet is unlocked (run unlocks the
\* adapter before any tick starts)
sign_as(whoami, state_root) == Ok([signer |-> whoami, over |-> state_root])

\* adapter.verify(signer, state_root, signature) on a well-formed signature
verify_signer(signer, state_root, signature) ==
    signature.signer = signer /\ signature.over = state_root

ApproveState(state_root, signature, is_healthy) ==
    [type |-> "ApproveState", state_root |-> state_root,
     signature |-> signature, is_healthy |-> is_healthy]

RejectState(state_root, reason) ==
    [type |-> "RejectState", state_root |-> state_root, reason |-> reason]

\* balances[a], zero for an address the map does not hold
Get(m, a) == IF a \in DOMAIN m THEN m[a] ELSE 0

Diff(x, y) == IF x >= y THEN x - y ELSE y - x

\* config.health_threshold_promilles and config.health_unsignable_promilles
health_threshold_promilles == 10
health_unsignable_promilles == 50

\* the health of the proposed balances against the Follower's own ledger
get_health(proposed, ledger, deposit) ==
    LET divergences == {Diff(Get(proposed.earners, a), Get(ledger.earners, a)) : a \in Earners}
    IN  IF \A d \in divergences : d <= (health_threshold_promilles * deposit) \div 1000
        THEN "Healthy"
        ELSE IF \E d \in divergences : d > (health_unsignable_promilles * deposit) \div 1000
             THEN "Unsignable"
             ELSE "Unhealthy"

\* no earner and no spender of prev has a lower amount in next
is_valid_transition(prev, next) ==
    /\ \A a \in DOMAIN prev.earners : Get(next.earners, a) >= prev.earners[a]
    /\ \A a \in DOMAIN prev.spenders : Get(next.spenders, a) >= prev.spenders[a]

\* the BalancesError of a failed Unchecked -> Checked conversion
BalancesError(b) ==
    IF SumMap(b.earners) > Deposit THEN "OverDeposit" ELSE "InvalidRootHash"

\* a Follower tick that tests the transition against the empty balances
\* instead of the balances it approved last
follower_tick_status_no_previous(Nl, Ap, ledger) ==
    IF Nl = NoMsg THEN <<>>
    ELSE IF Ap # NoMsg /\ Ap.approve_state.state_root = Nl.state_root THEN <<>>
    ELSE IF get_state_root_hash(Nl.balances) # Nl.state_root
         THEN <<RejectState(Nl.state_root, "RootHashInvalid")>>
    ELSE IF ~verify_signer(LeaderId, Nl.state_root, Nl.signature)
         THEN <<RejectState(Nl.state_root, "SignatureInvalid")>>
    ELSE IF ~Check(Nl.balances)
         THEN <<RejectState(Nl.state_root, BalancesError(Nl.balances))>>
    ELSE IF ~is_valid_transition(DefaultBalances, Nl.balances)
         THEN <<RejectState(Nl.state_root, "InvalidTransition")>>
    ELSE IF get_health(Nl.balances, ledger, Deposit) = "Unsignable"
         THEN <<RejectState(Nl.state_root, "TooLargeSum")>>
    ELSE <<ApproveState(Nl.state_root, sign_as(FollowerId, Nl.state_root).value,
                        get_health(Nl.balances, ledger, Deposit) = "Healthy")>>

\* a Follower tick that signs whatever passes the root and signature tests
follower_tick_status_unchecked_balances(Nl, Ap, ledger) ==
    IF Nl = NoMsg THEN <<>>
    ELSE IF Ap # NoMsg /\ Ap.approve_state.state_root = Nl.state_root THEN <<>>
    ELSE IF get_state_root_hash(Nl.balances) # Nl.state_root
         THEN <<RejectState(Nl.state_root, "RootHashInvalid")>>
    ELSE IF ~verify_signer(LeaderId, Nl.state_root, Nl.signature)
         THEN <<RejectState(Nl.state_root, "SignatureInvalid")>>
    ELSE IF ~is_valid_transition(IF Ap = NoMsg THEN DefaultBalances
                                 ELSE Ap.new_state.balances, Nl.balances)
         THEN <<RejectState(Nl.state_root, "InvalidTransition")>>
    ELSE <<ApproveState(Nl.state_root, sign_as(FollowerId, Nl.state_root).value,
                        get_health(Nl.balances, ledger, Deposit) = "Healthy")>>

\* a Follower tick that answers every NewState, approved before or not
follower_tick_status_always_answers(Nl, Ap, ledger) ==
    IF Nl = NoMsg THEN <<>>
    ELSE IF get_state_root_hash(Nl.balances) # Nl.state_root
         THEN <<RejectState(Nl.state_root, "RootHashInvalid")>>
    ELSE IF ~verify_signer(LeaderId, Nl.state_root, Nl.signature)
         THEN <<RejectState(Nl.state_root, "SignatureInvalid")>>
    ELSE IF ~Check(Nl.balances)
         THEN <<RejectState(Nl.state_root, BalancesError(Nl.balances))>>
    ELSE IF ~is_valid_transition(IF Ap = NoMsg THEN DefaultBalances
                                 ELSE Ap.new_state.balances, Nl.balances)
         THEN <<RejectState(Nl.state_root, "InvalidTransition")>>
    ELSE IF get_health(Nl.balances, ledger, Deposit) = "Unsignable"
         THEN <<RejectState(Nl.state_root, "TooLargeSum")>>
    ELSE <<ApproveState(Nl.state_root, sign_as(FollowerId, Nl.state_root).value,
                        get_health(Nl.balances, ledger, Deposit) = "Healthy")>>

\* follower::tick on the Sentry view (Nl: the Leader's latest NewState, Ap: our
\* latest ApproveState with its NewState, ledger: our own accounting): the
\* message it emits next to the Heartbeat, steps 1 to 8 of the procedure
follower_tick_status(Nl, Ap, ledger) ==
    IF Nl = NoMsg THEN <<>>
    ELSE IF Ap # NoMsg /\ Ap.approve_state.state_root = Nl.state_root THEN <<>>
    ELSE LET Bp == IF Ap = NoMsg THEN DefaultBalances ELSE Ap.new_state.balances
         IN  IF get_state_root_hash(Nl.balances) # Nl.state_root
             THEN <<RejectState(Nl.state_root, "RootHashInvalid")>>
             ELSE IF ~verify_signer(LeaderId, Nl.state_root, Nl.signature)
                  THEN <<RejectState(Nl.state_root, "SignatureInvalid")>>
             ELSE IF ~Check(Nl.balances)
                  THEN <<RejectState(Nl.state_root, BalancesError(Nl.balances))>>
             ELSE IF ~is_valid_transition(Bp, Nl.balances)
                  THEN <<RejectState(Nl.state_root, "InvalidTransition")>>
             ELSE IF get_health(Nl.balances, ledger, Deposit) = "Unsignable"
                  THEN <<RejectState(Nl.state_root, "TooLargeSum")>>
             ELSE <<ApproveState(Nl.state_root, sign_as(FollowerId, Nl.state_root).value,
                                 get_health(Nl.balances, ledger, Deposit) = "Healthy")>>

\* the Heartbeat a Follower tick ends with
follower_heartbeat ==
    Heartbeat(sign_as(FollowerId, ZeroRoot).value, ZeroRoot)

\* the signatures a NewState on the Sentry may carry: the Leader's over the
\* root, a stranger's over the root, the Leader's over another text
NewStateSignatures(state_root) ==
    {[signer |-> LeaderId, over |-> state_root],
     [signer |-> "mallory", over |-> state_root],
     [signer |-> LeaderId, over |-> <<"other">>]}

\* the roots a NewState with balances b may carry: the root of b, the root
\* of the empty balances, the root this Follower approved last
NewStateRoots(b, Ap) ==
    {get_state_root_hash(b), ZeroRoot}
        \cup (IF Ap = NoMsg THEN {} ELSE {Ap.approve_state.state_root})

InitFollower ==
    /\ FollowerIdle
    /\ LeaderIdle /\ DriverIdle /\ PropIdle /\ FetchIdle /\ AdapterIdle /\ RunIdle /\ CampaignIdle /\ EvalIdle

\* the Leader's Sentry records a new NewState of the Leader
leader_posts_new_state ==
    /\ fOp = "none"
    /\ \E b \in AllBalances :
        \E state_root \in NewStateRoots(b, lastApproved) :
            \E signature \in NewStateSignatures(state_root) :
                leaderNewState' = NewState(state_root, signature, b)
    /\ UNCHANGED <<lastApproved, fOp, fArgs, fResult, fEmitted>>
    /\ UNCHANGED <<leaderVars, driverVars, propVars, fetchVars, adapterVars, runVars, campaignVars, evalVars>>

\* validator_tick for a channel whose Follower is this validator
follower_tick ==
    /\ fOp = "none"
    /\ \E ledger \in CheckedBalances, stored \in BOOLEAN :
        LET status == follower_tick_status(leaderNewState, lastApproved, ledger)
            approved == status # <<>> /\ status[1].type = "ApproveState"
        IN  /\ fOp' = "tick"
            /\ fArgs' = [Nl |-> leaderNewState, Ap |-> lastApproved, ledger |-> ledger]
            /\ fResult' = "ok"
            /\ fEmitted' = status \o <<follower_heartbeat>>
            /\ lastApproved' = IF approved /\ stored
                               THEN [new_state |-> leaderNewState, approve_state |-> status[1]]
                               ELSE lastApproved
    /\ UNCHANGED leaderNewState
    /\ UNCHANGED <<leaderVars, driverVars, propVars, fetchVars, adapterVars, runVars, campaignVars, evalVars>>

\* the outcome of the tick is dropped; the next iteration ticks again
follower_drop_status ==
    /\ fOp = "tick"
    /\ fOp' = "none"
    /\ fArgs' = NoMsg
    /\ fResult' = "none"
    /\ fEmitted' = <<>>
    /\ UNCHANGED <<leaderNewState, lastApproved>>
    /\ UNCHANGED <<leaderVars, driverVars, propVars, fetchVars, adapterVars, runVars, campaignVars, evalVars>>

NextFollower ==
    \/ leader_posts_new_state
    \/ follower_tick
    \/ follower_drop_status

SpecFollower == InitFollower /\ [][NextFollower]_vars

\* the messages of one type the last Follower tick emitted
EmittedOf(t) == {i \in DOMAIN fEmitted : fEmitted[i].type = t}

\* the last tick read a NewState whose root this Follower had approved before
AlreadyApproved ==
    /\ fArgs.Nl # NoMsg
    /\ fArgs.Ap # NoMsg
    /\ fArgs.Ap.approve_state.state_root = fArgs.Nl.state_root

\* the last tick read a NewState in which some earner has less than in the
\* balances this Follower approved last
EarnerDecreased ==
    /\ fArgs.Nl # NoMsg
    /\ fArgs.Ap # NoMsg
    /\ \E a \in DOMAIN fArgs.Ap.new_state.balances.earners :
            Get(fArgs.Nl.balances.earners, a) < fArgs.Ap.new_state.balances.earners[a]

\* C25 as stated: given approved balances Bp and a Leader NewState in which
\* some earner's amount is lower than in Bp, the Follower tick emits a
\* RejectState and no ApproveState.
C25_DecreaseRejected ==
    (fOp = "tick" /\ EarnerDecreased)
        => /\ EmittedOf("RejectState") # {}
           /\ EmittedOf("ApproveState") = {}

\* C25 amended: given approved balances Bp and a Leader NewState in which
\* some earner's amount is lower than in Bp, the Follower tick emits no
\* ApproveState; it emits one RejectState for the NewState's root, unless
\* that root is the root it approved last, and then it emits only its
\* Heartbeat.
C25_DecreaseNeverApproved ==
    (fOp = "tick" /\ EarnerDecreased)
        => /\ EmittedOf("ApproveState") = {}
           /\ lastApproved = fArgs.Ap
           /\ IF AlreadyApproved
              THEN fEmitted = <<follower_heartbeat>>
              ELSE /\ Len(fEmitted) = 2
                   /\ fEmitted[1].type = "RejectState"
                   /\ fEmitted[1].state_root = fArgs.Nl.state_root
                   /\ fEmitted[2] = follower_heartbeat

C25_Witness ==
    /\ fOp = "tick"
    /\ EarnerDecreased
    /\ fEmitted[1] = RejectState(get_state_root_hash(fArgs.Nl.balances), "InvalidTransition")

\* C26 as stated: if the balances of the Leader's NewState have
\* sum(earners) > deposit or sum(earners) # sum(spenders), the Follower tick
\* rejects the state and signs no ApproveState.
C26_ConservationRejected ==
    (fOp = "tick" /\ fArgs.Nl # NoMsg /\ ~Check(fArgs.Nl.balances))
        => /\ EmittedOf("RejectState") # {}
           /\ EmittedOf("ApproveState") = {}

\* C26 amended: if the balances of the Leader's NewState have
\* sum(earners) > deposit or sum(earners) # sum(spenders), the Follower tick
\* signs no ApproveState; it emits one RejectState for the NewState's root,
\* unless that root is the root it approved last, and then it emits only its
\* Heartbeat.
C26_ConservationNeverApproved ==
    (fOp = "tick" /\ fArgs.Nl # NoMsg /\ ~Check(fArgs.Nl.balances))
        => /\ EmittedOf("ApproveState") = {}
           /\ lastApproved = fArgs.Ap
           /\ IF AlreadyApproved
              THEN fEmitted = <<follower_heartbeat>>
              ELSE /\ Len(fEmitted) = 2
                   /\ fEmitted[1].type = "RejectState"
                   /\ fEmitted[1].state_root = fArgs.Nl.state_root
                   /\ fEmitted[2] = follower_heartbeat

C26_Witness ==
    /\ fOp = "tick"
    /\ fArgs.Nl # NoMsg
    /\ SumMap(fArgs.Nl.balances.earners) # SumMap(fArgs.Nl.balances.spenders)
    /\ fEmitted[1] = RejectState(get_state_root_hash(fArgs.Nl.balances),
                                 BalancesError(fArgs.Nl.balances))

\* C27: when the Follower's last ApproveState has the root of the Leader's
\* current NewState, the Follower tick emits only a Heartbeat and leaves the
\* log as it was, so that every further tick on it does the same: no second
\* ApproveState and no RejectState for that root.
C27_AlreadyApprovedOnlyHeartbeat ==
    (fOp = "tick" /\ AlreadyApproved)
        => /\ fResult = "ok"
           /\ fEmitted = <<follower_heartbeat>>
           /\ lastApproved = fArgs.Ap
           /\ leaderNewState = fArgs.Nl

C27_Witness ==
    /\ fOp = "tick"
    /\ AlreadyApproved
    /\ fArgs.Ap.new_state = fArgs.Nl
    /\ fArgs.Nl.balances # DefaultBalances
    /\ fEmitted = <<follower_heartbeat>>

(***************************************************************************)
(* The process: run, infinite and iterate_channels over time.              *)
(***************************************************************************)
\* how far the clock runs, and how many iterations are started
MaxTime == 3
MaxIterations == 2

\* how many channels a listing returns at most
MaxListed == 2

\* config.wait_time, in seconds
wait_time == 2

\* the channels all_channels may return: our role in the channel, whether
\* SentryApi::init succeeds for it, whether the adapter's signing succeeds
\* in its tick, whether its tick ends before validator_tick_timeout
RunChannels ==
    {[role |-> r, initOk |-> TRUE, signs |-> s, timely |-> TRUE] :
        r \in {"Leader", "Follower"}, s \in BOOLEAN}
    \cup {[role |-> "None", initOk |-> TRUE, signs |-> TRUE, timely |-> TRUE]}
    \cup {[role |-> "Leader", initOk |-> FALSE, signs |-> TRUE, timely |-> TRUE]}
    \cup {[role |-> "Follower", initOk |-> TRUE, signs |-> TRUE, timely |-> FALSE]}

\* what all_channels answers: the channels (no two alike), or an error
Listings_all_channels ==
    {Err("Request")} \cup {Ok(l) : l \in {l \in SUBSET RunChannels : Cardinality(l) <= MaxListed}}

\* validator_tick(adapter, channel, config, whoami) run to its end on a
\* channel with nothing to answer, where the Leader's and the Follower's
\* tick both come down to the heartbeat: the Result and the batches sent.
\* A tick that is not timely is still waiting for Sentry when
\* validator_tick_timeout expires; the batches of a tick cut that way are not
\* recorded
validator_tick(w, channel, order, answers) ==
    IF ~channel.initOk THEN [result |-> Err("Failed"), emitted |-> <<>>]
    ELSE IF channel.role = "None" THEN [result |-> Err("Failed"), emitted |-> <<>>]
    ELSE IF ~channel.timely THEN [result |-> Err("Failed"), emitted |-> <<>>]
    ELSE LET hb == heartbeat(w = "Some" /\ channel.signs, order, answers)
         IN  IF hb.ok
             THEN [result |-> Ok("unit"), emitted |-> hb.batches]
             ELSE [result |-> Err("Failed"), emitted |-> <<>>]

\* the ways try_join_all can end for the ticks it joined: every tick Ok, or
\* the Err of one of them, with every other tick finished before that or
\* dropped
JoinOutcomes(listed, w, order, answers) ==
    LET own(c) == validator_tick(w, c, order, answers)
    IN  {f \in [listed -> {"ok", "err", "dropped"}] :
            /\ \A c \in listed :
                \/ f[c] = "ok" /\ own(c).result.ok
                \/ f[c] = "err" /\ ~own(c).result.ok
                \/ f[c] = "dropped"
            /\ (\E c \in listed : f[c] = "dropped") => \E d \in listed : f[d] = "err"
            /\ (\E c \in listed : ~own(c).result.ok) => \E d \in listed : f[d] = "err"}

\* some tick of the iteration returned Err
Failed(it) == \E c \in DOMAIN it.ticks : it.ticks[c].result = "err"

\* some Leader tick of the iteration returned Err because signing failed
SignFailed(it) ==
    \E c \in DOMAIN it.ticks :
        /\ c.role = "Leader" /\ c.initOk /\ ~c.signs
        /\ it.ticks[c].result = "err"

\* some tick of the iteration was cut by validator_tick_timeout and returned
\* the Err made of the timer's error
TimedOut(it) ==
    \E c \in DOMAIN it.ticks : ~c.timely /\ it.ticks[c].result = "err"

InitRun ==
    /\ runMode \in {"single", "daemon"}
    /\ runPc = "start"
    /\ exitStatus = "none"
    /\ unlockCalls = 0
    /\ argsWallet = "None"
    /\ now = 0
    /\ iterCount = 0
    /\ iter = NoMsg
    /\ prevIter = NoMsg
    /\ keystore \in Keystores
    /\ wallet = "None"
    /\ unlockSucceeded = FALSE
    /\ adOp = "none"
    /\ adArgs = NoMsg
    /\ adResult = NoMsg
    /\ relayerCalls = <<>>
    /\ LeaderIdle /\ DriverIdle /\ PropIdle /\ FetchIdle /\ FollowerIdle /\ CampaignIdle /\ EvalIdle

\* a run that hands the adapter it was given, not the clone it unlocked, to Args
run_start_args_locked ==
    /\ runPc = "start"
    /\ LET r == unlock(keystore, wallet)
       IN  /\ unlockCalls' = unlockCalls + 1
           /\ wallet' = r.wallet
           /\ unlockSucceeded' = r.result.ok
           /\ argsWallet' = wallet
           /\ runPc' = IF r.result.ok THEN "looping" ELSE "exited"
           /\ exitStatus' = IF r.result.ok THEN "none" ELSE "err"
    /\ UNCHANGED <<runMode, now, iterCount, iter, prevIter>>
    /\ UNCHANGED <<keystore, adOp, adArgs, adResult, relayerCalls>>
    /\ UNCHANGED <<leaderVars, driverVars, propVars, fetchVars, followerVars, campaignVars, evalVars>>

\* run up to the start of the runtime: clone the adapter, unlock the clone
\* (an Err is returned at once), build Args around the unlocked clone
run_start ==
    /\ runPc = "start"
    /\ LET r == unlock(keystore, wallet)
       IN  /\ unlockCalls' = unlockCalls + 1
           /\ wallet' = r.wallet
           /\ unlockSucceeded' = r.result.ok
           /\ argsWallet' = IF r.result.ok THEN r.wallet ELSE argsWallet
           /\ runPc' = IF r.result.ok THEN "looping" ELSE "exited"
           /\ exitStatus' = IF r.result.ok THEN "none" ELSE "err"
    /\ UNCHANGED <<runMode, now, iterCount, iter, prevIter>>
    /\ UNCHANGED <<keystore, adOp, adArgs, adResult, relayerCalls>>
    /\ UNCHANGED <<leaderVars, driverVars, propVars, fetchVars, followerVars, campaignVars, evalVars>>

\* iterate_channels is called: the request of all_channels goes out
iterate_channels_begin ==
    /\ iter' = [start |-> now, end |-> -1, listings |-> 0, listed |-> FALSE, ticks |-> <<>>]
    /\ prevIter' = IF iter = NoMsg THEN NoMsg
                   ELSE [start |-> iter.start, end |-> iter.end,
                         listed |-> iter.listed, timed_out |-> TimedOut(iter),
                         failed |-> Failed(iter), sign_failed |-> SignFailed(iter)]
    /\ iterCount' = iterCount + 1

\* run in single-tick mode: tokio::run(iterate_channels(args))
single_tick ==
    /\ runPc = "looping"
    /\ runMode = "single"
    /\ iterCount = 0
    /\ iterate_channels_begin
    /\ UNCHANGED <<runMode, runPc, exitStatus, unlockCalls, argsWallet, now>>
    /\ UNCHANGED <<leaderVars, driverVars, propVars, fetchVars, adapterVars, followerVars, campaignVars, evalVars>>

\* an infinite that starts the next iteration as soon as the last one is over
infinite_no_delay ==
    /\ runPc = "looping"
    /\ runMode = "daemon"
    /\ iterCount < MaxIterations
    /\ iter # NoMsg => iter.end >= 0
    /\ iterate_channels_begin
    /\ UNCHANGED <<runMode, runPc, exitStatus, unlockCalls, argsWallet, now>>
    /\ UNCHANGED <<leaderVars, driverVars, propVars, fetchVars, adapterVars, followerVars, campaignVars, evalVars>>

\* an infinite that awaits the Delay only, not the iteration
infinite_delay_only ==
    /\ runPc = "looping"
    /\ runMode = "daemon"
    /\ iterCount < MaxIterations
    /\ iter # NoMsg => now >= iter.start + wait_time
    /\ iterate_channels_begin
    /\ UNCHANGED <<runMode, runPc, exitStatus, unlockCalls, argsWallet, now>>
    /\ UNCHANGED <<leaderVars, driverVars, propVars, fetchVars, adapterVars, followerVars, campaignVars, evalVars>>

\* an infinite that leaves its loop after an iteration in which a tick failed
infinite_stops_on_error ==
    /\ runPc = "looping"
    /\ runMode = "daemon"
    /\ iterCount < MaxIterations
    /\ iter # NoMsg => (iter.end >= 0 /\ now >= iter.start + wait_time)
    /\ IF iter # NoMsg /\ Failed(iter)
       THEN /\ runPc' = "exited"
            /\ exitStatus' = "ok"
            /\ UNCHANGED <<iter, prevIter, iterCount>>
       ELSE /\ iterate_channels_begin
            /\ UNCHANGED <<runPc, exitStatus>>
    /\ UNCHANGED <<runMode, unlockCalls, argsWallet, now>>
    /\ UNCHANGED <<leaderVars, driverVars, propVars, fetchVars, adapterVars, followerVars, campaignVars, evalVars>>

\* one turn of the loop of infinite: once the join of the last iteration and
\* of its Delay (armed for wait_time after that iteration started) is
\* complete, the next iteration and its Delay are started
infinite ==
    /\ runPc = "looping"
    /\ runMode = "daemon"
    /\ iterCount < MaxIterations
    /\ iter # NoMsg => (iter.end >= 0 /\ now >= iter.start + wait_time)
    /\ iterate_channels_begin
    /\ UNCHANGED <<runMode, runPc, exitStatus, unlockCalls, argsWallet, now>>
    /\ UNCHANGED <<leaderVars, driverVars, propVars, fetchVars, adapterVars, followerVars, campaignVars, evalVars>>

\* iterate_channels from the answer of all_channels to its return: an Err
\* is printed and Ok(()) returned; otherwise one validator_tick per channel
\* runs on a clone of args.adapter under try_join_all, the Err of the join
\* is printed, and Ok(()) is returned. Each tick is recorded with the wallet
\* of its adapter, how it ended and, when it returned, the batches it sent
iterate_channels_returns ==
    /\ runPc = "looping"
    /\ iter # NoMsg
    /\ iter.end = -1
    /\ \E listing \in Listings_all_channels,
          order \in Orders(ValidatorIds), answers \in [ValidatorIds -> TickAnswers] :
        IF ~listing.ok
        THEN iter' = [iter EXCEPT !.end = now, !.listings = 1]
        ELSE \E f \in JoinOutcomes(listing.value, argsWallet, order, answers) :
                iter' = [iter EXCEPT
                            !.end = now,
                            !.listings = 1,
                            !.listed = TRUE,
                            !.ticks = [c \in listing.value |->
                                [wallet |-> argsWallet,
                                 result |-> f[c],
                                 emitted |-> IF f[c] = "dropped" THEN <<>>
                                             ELSE validator_tick(argsWallet, c, order,
                                                                 answers).emitted]]]
    /\ UNCHANGED <<runMode, runPc, exitStatus, unlockCalls, argsWallet, now, iterCount, prevIter>>
    /\ UNCHANGED <<leaderVars, driverVars, propVars, fetchVars, adapterVars, followerVars, campaignVars, evalVars>>

\* run after tokio::run has returned in single-tick mode: Ok(())
run_returns ==
    /\ runPc = "looping"
    /\ runMode = "single"
    /\ iter # NoMsg
    /\ iter.end >= 0
    /\ runPc' = "exited"
    /\ exitStatus' = "ok"
    /\ UNCHANGED <<runMode, unlockCalls, argsWallet, now, iterCount, iter, prevIter>>
    /\ UNCHANGED <<leaderVars, driverVars, propVars, fetchVars, adapterVars, followerVars, campaignVars, evalVars>>

\* a second goes by
time_passes ==
    /\ runPc = "looping"
    /\ now < MaxTime
    /\ now' = now + 1
    /\ UNCHANGED <<runMode, runPc, exitStatus, unlockCalls, argsWallet, iterCount, iter, prevIter>>
    /\ UNCHANGED <<leaderVars, driverVars, propVars, fetchVars, adapterVars, followerVars, campaignVars, evalVars>>

NextRun ==
    \/ run_start
    \/ single_tick
    \/ infinite
    \/ iterate_channels_returns
    \/ run_returns
    \/ time_passes

SpecRun == InitRun /\ [][NextRun]_vars

C23_SleepsAfterIteration ==
    (runMode = "daemon" /\ prevIter # NoMsg)
        => iter.start >= prevIter.end + wait_time

\* C23 amended: in daemon mode the next iteration starts only after the
\* iteration before it has finished, and no earlier than wait_time after
\* that iteration started.
C23_WaitsFromIterationStart ==
    (runMode = "daemon" /\ prevIter # NoMsg)
        => /\ prevIter.end >= prevIter.start
           /\ iter.start >= prevIter.end
           /\ iter.start >= prevIter.start + wait_time

C23_Witness ==
    /\ runMode = "daemon"
    /\ prevIter # NoMsg
    /\ prevIter.end > prevIter.start
    /\ iter.start = prevIter.start + wait_time

\* C24: in single-tick mode the process lists the channels once, ticks each
\* listed channel at most once, then returns, and the status it returns is
\* an error when a channel's tick failed.
C24_SingleTickAggregatesStatus ==
    (runMode = "single" /\ runPc = "exited" /\ iter # NoMsg)
        => /\ iterCount = 1
           /\ iter.listings = 1
           /\ iter.end >= 0
           /\ Failed(iter) => exitStatus = "err"

C37_OneIterationInFlight ==
    (runMode = "daemon" /\ prevIter # NoMsg)
        => /\ prevIter.end # -1
           /\ prevIter.end <= iter.start
           /\ prevIter.start + wait_time <= iter.start
           /\ iterCount >= 2

C37_Witness ==
    /\ runMode = "daemon"
    /\ prevIter # NoMsg
    /\ prevIter.end > prevIter.start + wait_time
    /\ iter.start = prevIter.end
    /\ iter.end >= 0
    /\ iter.ticks # <<>>

\* the runtime keeps polling the future of infinite once its join is ready,
\* and time goes on
SpecRunFair == SpecRun /\ WF_vars(infinite) /\ WF_vars(time_passes)

\* C36: in daemon mode, in the iteration that follows one in which a tick
\* timed out, the channel of that tick is ticked again if it is still listed:
\* its tick is not left unrun or abandoned.
C36_AffectedChannelTickedAgain ==
    (/\ runMode = "daemon"
     /\ prevIter # NoMsg
     /\ prevIter.timed_out
     /\ iter.end >= 0)
        => \A c \in DOMAIN iter.ticks : ~c.timely => iter.ticks[c].result # "dropped"

\* the half of C36 about the loop: no failure inside an iteration ends it.
\* Once an iteration has returned after a failed channel listing, a failed
\* tick or a timed-out tick, the loop is still running and the next iteration
\* starts (as far as the bounds on iterations and on the clock let one start).
FailureLeadsToNextIteration ==
    \A k \in 1 .. MaxIterations - 1 :
        (/\ runMode = "daemon"
         /\ iterCount = k
         /\ iter # NoMsg
         /\ iter.end >= 0
         /\ (~iter.listed \/ Failed(iter) \/ TimedOut(iter))
         /\ iter.start + wait_time <= MaxTime)
            ~> (iterCount = k + 1 /\ runPc = "looping" /\ exitStatus = "none")

\* the ticks started for channel i of the list in this iteration
TicksStarted(i) ==
    {k \in DOMAIN tickLog[i] : tickLog[i][k] \in {"leader::tick", "follower::tick"}}

\* C40: within one iteration each listed channel gets at most one tick, and
\* its kind follows the node's role in the channel: a Leader tick only where
\* the node is the Leader, a Follower tick only where it is the Follower,
\* never both and no tick where it has no role.
C40_OneTickOfOwnRole ==
    \A i \in DOMAIN channels :
        /\ Cardinality(TicksStarted(i)) <= 1
        /\ \A k \in DOMAIN tickLog[i] :
            /\ tickLog[i][k] = "leader::tick" => channels[i].role = "Leader"
            /\ tickLog[i][k] = "follower::tick" => channels[i].role = "Follower"
            /\ tickLog[i][k] # "none"
        /\ channels[i].role = "None" => tickLog[i] = <<>>

C40_Witness ==
    /\ iterPc = "done"
    /\ Len(channels) = 2
    /\ tickState[1] = "ok" /\ tickState[2] = "ok"
    /\ Len(tickLog[1]) > 1 /\ Len(tickLog[2]) > 1
    /\ channels[1].role = "Follower" /\ tickLog[1][1] = "follower::tick"
    /\ channels[2].role = "Leader" /\ tickLog[2][1] = "leader::tick"

\* C34: a tick whose validator_tick_timeout expired is reported as a failed
\* tick (the join resolves to its Err and the iteration is over), and from
\* then on it sends no request to Sentry, neither a read nor a propagation.
C34_TimedOutTickCancelled ==
    /\ [](\A i \in DOMAIN tickState :
            tickState[i] = "err_timeout" => (iterError /\ iterPc = "done"))
    /\ [][\A i \in DOMAIN tickState :
            tickState[i] = "err_timeout"
                => (tickState'[i] = "err_timeout" /\ tickLog'[i] = tickLog[i])]_vars

C34_Witness ==
    \E i \in DOMAIN tickState :
        /\ tickState[i] = "err_timeout"
        /\ Len(tickLog[i]) = 2
        /\ tickLog[i][2] = "read"

C39_OwnSentryAmongTargets ==
    (adOp = "SentryApi_init" /\ adResult.ok)
        => LET api == adResult.value
           IN  /\ api.adapter \in DOMAIN api.propagate_to
               /\ api.propagate_to[api.adapter].url = read_url(api)
               /\ read_url(api) \in propagate_urls(api)

C39_Witness ==
    /\ adOp = "SentryApi_init"
    /\ adResult.ok
    /\ Cardinality(DOMAIN adResult.value.propagate_to) = 2
    /\ Cardinality(propagate_urls(adResult.value)) = 2
    /\ read_url(adResult.value) = "url2"

(***************************************************************************)
(* CampaignLoad part: the middleware that loads the campaign named by the  *)
(* first route parameter and attaches it to the request.                   *)
(***************************************************************************)
Some(v) == [type |-> "Some", value |-> v]

\* CampaignId values (16 bytes each)
CampaignIds == {[bytes |-> "01"], [bytes |-> "02"]}

\* the strings a route parameter can hold
RouteStrings == {"0x01", "01", "0x02", "Bad campaign Id"}

\* str::parse::<CampaignId>(): the hex of the 16 bytes, with or without 0x
parse_CampaignId(str) ==
    CASE str \in {"0x01", "01"} -> Ok([bytes |-> "01"])
      [] str = "0x02" -> Ok([bytes |-> "02"])
      [] OTHER -> Err("InvalidCampaignId")

CampaignTitles == {"a", "b"}
Campaigns == [id : CampaignIds, title : CampaignTitles]

\* the campaigns table: at most one Campaign per id, stored under its id
Pools == {p \in PartialMaps(CampaignIds, Campaigns) : \A c \in DOMAIN p : p[c].id = c}

\* a Request<Body> as far as the middleware looks at it: its RouteParams
\* extension (absent, or a Vec<String>) and its Campaign extension
Requests ==
    [params : {NoMsg} \cup {Some(v) : v \in {<<>>} \cup {<<a>> : a \in RouteStrings}
                                            \cup {<<a, b>> : a, b \in RouteStrings}},
     campaign : {NoMsg} \cup {Some(c) : c \in Campaigns}]

BadRequest(msg) == [kind |-> "BadRequest", msg |-> msg]
NotFound == [kind |-> "NotFound"]

\* the ResponseError that `?` makes of the PoolError of a failed query
ResponseError_from_PoolError == [kind |-> "From<PoolError>"]

\* db::fetch_campaign(pool, &campaign_id): Ok(Some(campaign)), Ok(None), or
\* the error of the query
fetch_campaign(p, campaign_id, db_ok) ==
    IF ~db_ok THEN Err("PoolError")
    ELSE IF campaign_id \in DOMAIN p THEN Ok(Some(p[campaign_id]))
    ELSE Ok(NoMsg)

\* a call that leaves a Campaign the request already carries in place
CampaignLoad_call_keeps_extension(request, p, db_ok) ==
    IF request.params = NoMsg THEN Err(BadRequest("Route params not found"))
    ELSE IF request.params.value = <<>> THEN Err(BadRequest("No id"))
    ELSE LET campaign_id == parse_CampaignId(request.params.value[1])
         IN  IF ~campaign_id.ok THEN Err(BadRequest("Wrong Campaign Id"))
             ELSE LET campaign == fetch_campaign(p, campaign_id.value, db_ok)
                  IN  IF ~campaign.ok THEN Err(ResponseError_from_PoolError)
                      ELSE IF campaign.value = NoMsg THEN Err(NotFound)
                      ELSE IF request.campaign # NoMsg THEN Ok(request)
                      ELSE Ok([request EXCEPT !.campaign = campaign.value])

\* CampaignLoad::call(request, application)
CampaignLoad_call(request, p, db_ok) ==
    IF request.params = NoMsg THEN Err(BadRequest("Route params not found"))
    ELSE IF request.params.value = <<>> THEN Err(BadRequest("No id"))
    ELSE LET campaign_id == parse_CampaignId(request.params.value[1])
         IN  IF ~campaign_id.ok THEN Err(BadRequest("Wrong Campaign Id"))
             ELSE LET campaign == fetch_campaign(p, campaign_id.value, db_ok)
                  IN  IF ~campaign.ok THEN Err(ResponseError_from_PoolError)
                      ELSE IF campaign.value = NoMsg THEN Err(NotFound)
                      ELSE Ok([request EXCEPT !.campaign = campaign.value])

InitCampaign ==
    /\ pool \in Pools
    /\ mwRequest = NoMsg
    /\ mwDbOk = TRUE
    /\ mwResult = NoMsg
    /\ LeaderIdle /\ DriverIdle /\ PropIdle /\ FetchIdle /\ AdapterIdle /\ FollowerIdle
    /\ RunIdle /\ EvalIdle

\* a request reaches the middleware and is answered
call_CampaignLoad ==
    /\ mwResult = NoMsg
    /\ \E request \in Requests, db_ok \in BOOLEAN :
        /\ mwRequest' = request
        /\ mwDbOk' = db_ok
        /\ mwResult' = CampaignLoad_call(request, pool, db_ok)
    /\ UNCHANGED pool
    /\ UNCHANGED <<leaderVars, driverVars, propVars, fetchVars, adapterVars, followerVars, runVars, evalVars>>

\* the caller takes the Result; the next request can come
take_request ==
    /\ mwResult # NoMsg
    /\ mwRequest' = NoMsg
    /\ mwDbOk' = TRUE
    /\ mwResult' = NoMsg
    /\ UNCHANGED pool
    /\ UNCHANGED <<leaderVars, driverVars, propVars, fetchVars, adapterVars, followerVars, runVars, evalVars>>

NextCampaign == call_CampaignLoad \/ take_request

SpecCampaign == InitCampaign /\ [][NextCampaign]_vars

\* the first route parameter of the request that was answered, parsed
FirstParamId == parse_CampaignId(mwRequest.params.value[1])

HasFirstParam ==
    mwResult # NoMsg /\ mwRequest.params # NoMsg /\ mwRequest.params.value # <<>>

\* C31 (as stated): CampaignLoad fails with BadRequest("Wrong Campaign Id")
\* when the first route parameter is not a valid campaign id, with NotFound
\* when no campaign with that id is stored, and otherwise returns the request
\* with exactly the stored campaign attached to its extensions.
C31_CampaignLoadThreeOutcomes ==
    HasFirstParam
        => IF ~FirstParamId.ok
           THEN mwResult = Err(BadRequest("Wrong Campaign Id"))
           ELSE IF FirstParamId.value \notin DOMAIN pool
           THEN mwResult = Err(NotFound)
           ELSE mwResult = Ok([mwRequest EXCEPT !.campaign = Some(pool[FirstParamId.value])])

\* C31 (amended): without RouteParams the call fails with BadRequest("Route
\* params not found"), without a first parameter with BadRequest("No id"),
\* with a first parameter that is no campaign id with BadRequest("Wrong
\* Campaign Id"); with a valid id it fails with the error of the query when
\* the query fails, with NotFound when the query succeeds and no campaign
\* with that id is stored, and otherwise returns the request with exactly the
\* stored campaign attached, whatever Campaign the request carried before.
C31_CampaignLoadOutcomes ==
    mwResult # NoMsg
        => IF mwRequest.params = NoMsg
           THEN mwResult = Err(BadRequest("Route params not found"))
           ELSE IF mwRequest.params.value = <<>>
           THEN mwResult = Err(BadRequest("No id"))
           ELSE IF ~FirstParamId.ok
           THEN mwResult = Err(BadRequest("Wrong Campaign Id"))
           ELSE IF ~mwDbOk
           THEN ~mwResult.ok /\ mwResult.error \notin {NotFound, BadRequest("Wrong Campaign Id")}
           ELSE IF FirstParamId.value \notin DOMAIN pool
           THEN mwResult = Err(NotFound)
           ELSE /\ mwResult.ok
                /\ mwResult.value.campaign = Some(pool[FirstParamId.value])
                /\ mwResult.value.params = mwRequest.params

C31_Witness ==
    /\ HasFirstParam
    /\ mwDbOk
    /\ mwResult.ok
    /\ Cardinality(DOMAIN pool) = 2
    /\ mwRequest.campaign # NoMsg
    /\ mwRequest.campaign # mwResult.value.campaign
    /\ mwRequest.params.value[1] = "01"

(***************************************************************************)
(* Targeting rules part: eval(input, output, rule).                        *)
(***************************************************************************)
\* Value
Value_Bool(b) == [type |-> "Bool", b |-> b]
Value_String(str) == [type |-> "String", s |-> str]
Value_Array(items) == [type |-> "Array", items |-> items]
Value_BigNum(n) == [type |-> "BigNum", n |-> n]

RECURSIVE GCD(_, _)
GCD(a, b) == IF b = 0 THEN a ELSE GCD(b, a % b)

\* Value::Number: an integer literal, or the f64 a division produced (kept
\* as a reduced fraction); an integer and an f64 are never equal
Value_Number(repr, num, den) ==
    LET g == GCD(num, den)
    IN  [type |-> "Number", repr |-> repr, num |-> num \div g, den |-> den \div g]

EvalValues ==
    {Value_Bool(TRUE), Value_Bool(FALSE),
     Value_Number("int", 0, 1), Value_Number("int", 2, 1),
     Value_String("News"), Value_String("2"),
     Value_Array(<<>>),
     Value_Array(<<Value_String("News"), Value_String("Bitcoin")>>),
     Value_Array(<<Value_String("Ethereum")>>)}

\* Rule::Value and the Functions
Rule_Value(value) == [f |-> "Value", value |-> value]
Function_Get(key) == [f |-> "Get", key |-> key]
Function_Bn(value) == [f |-> "Bn", value |-> value]
Function_2(name, first_rule, second_rule) == [f |-> name, a |-> first_rule, b |-> second_rule]

\* rules without sub-rules, and two If rules to nest: one that yields no
\* value and one that yields a value
SubRules ==
    {Rule_Value(v) : v \in EvalValues}
    \cup {Function_Get(k) : k \in {"adSlot.categories", "unknown"}}
    \cup {Function_Bn(v) : v \in {Value_String("2"), Value_String("News"),
                                  Value_Number("int", 0, 1), Value_Bool(TRUE)}}
    \cup {Function_2("If", Rule_Value(Value_Bool(b)), Rule_Value(Value_String("News"))) :
            b \in BOOLEAN}

Rules ==
    SubRules
    \cup {Function_2(name, a, b) : name \in {"Div", "If", "And", "Intersects"},
                                 a \in SubRules, b \in SubRules}

\* Input: the ad slot, if any, with its categories
Inputs ==
    {[ad_slot |-> NoMsg]}
    \cup {[ad_slot |-> Some([categories |-> c])] :
            c \in {<<"Bitcoin", "Ethereum">>, <<"Advertisement", "Programming">>}}

\* Input::try_get(key): the value of a known field that is set
try_get(input, key) ==
    IF key = "adSlot.categories" /\ input.ad_slot # NoMsg
    THEN Ok(Value_Array([i \in DOMAIN input.ad_slot.value.categories |->
                            Value_String(input.ad_slot.value.categories[i])]))
    ELSE Err("UnknownVariable")

\* Value::try_bool
try_bool(value) == IF value.type = "Bool" THEN Ok(value.b) ELSE Err("TypeError")

\* Value::try_array
try_array(value) == IF value.type = "Array" THEN Ok(value.items) ELSE Err("TypeError")

\* BigNum::from_str on the strings that occur
BigNum_from_str(str) ==
    CASE str = "0" -> Ok(0)
      [] str = "2" -> Ok(2)
      [] OTHER -> Err("TypeError")

\* Number::to_string of an integer literal ("0", "2"); an f64 prints with a
\* decimal point, which is no BigNum
Number_to_string(number) ==
    IF number.repr = "f64" THEN "f64"
    ELSE CASE number.num = 0 -> "0" [] number.num = 2 -> "2" [] OTHER -> "int"

\* Value::try_bignum (TryFrom<Value> for BigNum)
try_bignum(value) ==
    CASE value.type = "String" -> BigNum_from_str(value.s)
      [] value.type = "BigNum" -> Ok(value.n)
      [] value.type = "Number" -> BigNum_from_str(Number_to_string(value))
      [] OTHER -> Err("TypeError")

\* what eval returns for a rule, and the rules (by their place under the
\* rule eval was called on) whose evaluation was started
Evaluated(res, visited) == [res |-> res, visited |-> visited]

\* eval(..)?.ok_or(Error::TypeError)? of a sub-rule: its value, or the error
Operand(r) ==
    IF ~r.res.ok THEN r.res
    ELSE IF r.res.value = NoMsg THEN Err("TypeError")
    ELSE Ok(r.res.value.value)

\* the unwinding of a panic (BigNum division by zero), as seen by the caller
Panic == [ok |-> FALSE, error |-> "panic"]

RECURSIVE eval(_, _, _)

\* the Function::Div arm
eval_Div(input, rule, path) ==
    LET first == eval(input, rule.a, Append(path, "a"))
        second == eval(input, rule.b, Append(path, "b"))
        seen1 == {path} \cup first.visited
        seen2 == seen1 \cup second.visited
        x == Operand(first)
        y == Operand(second)
    IN  IF ~x.ok THEN Evaluated(x, seen1)
        ELSE IF x.value.type = "Number"
        THEN IF ~y.ok THEN Evaluated(y, seen2)
             ELSE IF y.value.type # "Number" THEN Evaluated(Err("TypeError"), seen2)
             ELSE IF y.value.num = 0 THEN Evaluated(Err("TypeError"), seen2)
             ELSE Evaluated(Ok(Some(Value_Number("f64", x.value.num * y.value.den,
                                                 x.value.den * y.value.num))), seen2)
        ELSE IF x.value.type = "BigNum"
        THEN IF ~y.ok THEN Evaluated(y, seen2)
             ELSE LET second_bignum == try_bignum(y.value)
                  IN  IF ~second_bignum.ok THEN Evaluated(second_bignum, seen2)
                      ELSE IF second_bignum.value = 0 THEN Evaluated(Panic, seen2)
                      ELSE Evaluated(Ok(Some(Value_BigNum(x.value.n \div second_bignum.value))),
                                     seen2)
        ELSE Evaluated(Err("TypeError"), seen1)

\* an If arm that evaluates `then` before it looks at the condition
eval_If_eager(input, rule, path) ==
    LET first == eval(input, rule.a, Append(path, "a"))
        second == eval(input, rule.b, Append(path, "b"))
        seen2 == {path} \cup first.visited \cup second.visited
        x == Operand(first)
        eval_if == IF x.ok THEN try_bool(x.value) ELSE x
    IN  IF ~eval_if.ok THEN Evaluated(eval_if, seen2)
        ELSE IF eval_if.value THEN Evaluated(second.res, seen2)
        ELSE Evaluated(Ok(NoMsg), seen2)

\* the Function::If arm
eval_If(input, rule, path) ==
    LET first == eval(input, rule.a, Append(path, "a"))
        second == eval(input, rule.b, Append(path, "b"))
        seen1 == {path} \cup first.visited
        seen2 == seen1 \cup second.visited
        x == Operand(first)
        eval_if == IF x.ok THEN try_bool(x.value) ELSE x
    IN  IF ~eval_if.ok THEN Evaluated(eval_if, seen1)
        ELSE IF eval_if.value THEN Evaluated(second.res, seen2)
        ELSE Evaluated(Ok(NoMsg), seen1)

\* the Function::And arm
eval_And(input, rule, path) ==
    LET first == eval(input, rule.a, Append(path, "a"))
        second == eval(input, rule.b, Append(path, "b"))
        seen1 == {path} \cup first.visited
        seen2 == seen1 \cup second.visited
        x == Operand(first)
        y == Operand(second)
        a == IF x.ok THEN try_bool(x.value) ELSE x
        b == IF y.ok THEN try_bool(y.value) ELSE y
    IN  IF ~a.ok THEN Evaluated(a, seen1)
        ELSE IF ~b.ok THEN Evaluated(b, seen2)
        ELSE Evaluated(Ok(Some(Value_Bool(a.value /\ b.value))), seen2)

\* an Intersects arm that wants every element of a to be in b
eval_Intersects_all(input, rule, path) ==
    LET first == eval(input, rule.a, Append(path, "a"))
        second == eval(input, rule.b, Append(path, "b"))
        seen1 == {path} \cup first.visited
        seen2 == seen1 \cup second.visited
        x == Operand(first)
        y == Operand(second)
        a == IF x.ok THEN try_array(x.value) ELSE x
        b == IF y.ok THEN try_array(y.value) ELSE y
    IN  IF ~a.ok THEN Evaluated(a, seen1)
        ELSE IF ~b.ok THEN Evaluated(b, seen2)
        ELSE Evaluated(Ok(Some(Value_Bool(
                \A i \in DOMAIN a.value : \E j \in DOMAIN b.value :
                    a.value[i] = b.value[j]))), seen2)

\* the Function::Intersects arm
eval_Intersects(input, rule, path) ==
    LET first == eval(input, rule.a, Append(path, "a"))
        second == eval(input, rule.b, Append(path, "b"))
        seen1 == {path} \cup first.visited
        seen2 == seen1 \cup second.visited
        x == Operand(first)
        y == Operand(second)
        a == IF x.ok THEN try_array(x.value) ELSE x
        b == IF y.ok THEN try_array(y.value) ELSE y
    IN  IF ~a.ok THEN Evaluated(a, seen1)
        ELSE IF ~b.ok THEN Evaluated(b, seen2)
        ELSE Evaluated(Ok(Some(Value_Bool(
                \E i \in DOMAIN a.value : \E j \in DOMAIN b.value :
                    a.value[i] = b.value[j]))), seen2)

\* eval(input, output, rule); no arm writes to output
eval(input, rule, path) ==
    CASE rule.f = "Value" -> Evaluated(Ok(Some(rule.value)), {path})
      [] rule.f = "Div" -> eval_Div(input, rule, path)
      [] rule.f = "If" -> eval_If(input, rule, path)
      [] rule.f = "And" -> eval_And(input, rule, path)
      [] rule.f = "Intersects" -> eval_Intersects(input, rule, path)
      [] rule.f = "Get" ->
            LET got == try_get(input, rule.key)
            IN  Evaluated(IF got.ok THEN Ok(Some(got.value)) ELSE got, {path})
      [] rule.f = "Bn" ->
            LET big_num == try_bignum(rule.value)
            IN  Evaluated(IF big_num.ok THEN Ok(Some(Value_BigNum(big_num.value)))
                          ELSE big_num, {path})

InitEval ==
    /\ evalInput \in Inputs
    /\ evalRule \in Rules
    /\ evalResult = NoMsg
    /\ LeaderIdle /\ DriverIdle /\ PropIdle /\ FetchIdle /\ AdapterIdle /\ FollowerIdle
    /\ RunIdle /\ CampaignIdle

\* Rule::eval(&input, &mut output)
Rule_eval ==
    /\ evalResult = NoMsg
    /\ evalResult' = eval(evalInput, evalRule, <<>>)
    /\ UNCHANGED <<evalInput, evalRule>>
    /\ UNCHANGED <<leaderVars, driverVars, propVars, fetchVars, adapterVars, followerVars, runVars, campaignVars>>

NextEval == Rule_eval

SpecEval == InitEval /\ [][NextEval]_vars

\* what the first and the second sub-rule of the rule evaluate to on the input
FirstResult == eval(evalInput, evalRule.a, <<"a">>).res
SecondResult == eval(evalInput, evalRule.b, <<"b">>).res

IsArray(r) == r.ok /\ r.value # NoMsg /\ r.value.value.type = "Array"

\* the two arrays share an element
Share(a, b) == \E i \in DOMAIN a : \E j \in DOMAIN b : a[i] = b[j]

====
